---------------------------- MODULE Spec2Model ----------------------------
(***************************************************************************)
(* libmediaart: key derivation (cache.c) and cache reconciliation          *)
(* (extract.c), with the GdkPixbuf conversion backend (extractpixbuf.c).   *)
(*                                                                         *)
(* Strings are sequences of one-character strings.  NULL is the absent     *)
(* string.  MD5 is modelled as an injective tagging of its input, so two   *)
(* digests are equal exactly when the digested data are equal.             *)
(***************************************************************************)
EXTENDS Integers, Sequences, FiniteSets, TLC

\* the absent string (a C NULL pointer); no string of characters equals it
NULL == <<"NULL">>

\* F of the value v, with v computed once
With(v, F(_)) == CHOOSE r \in { F(x) : x \in {v} } : TRUE

(***************************************************************************)
(* Bounds.                                                                 *)
(***************************************************************************)
MaxLen == 4

(***************************************************************************)
(* Characters.                                                             *)
(***************************************************************************)
TAB == "\t"
NBSP == "nbsp"        \* U+00A0, compatibility-decomposes to a space
BadByte == "xFF"      \* the byte FF, which no UTF-8 sequence contains

\* g_utf8_validate (str, -1, NULL)
g_utf8_validate(s) == \A i \in 1..Len(s) : s[i] # BadByte

\* cache.c:134  invalid_chars = "()[]<>{}_!@#$^&*+=|\\/\"'?~"
invalid_chars ==
    { "(", ")", "[", "]", "<", ">", "{", "}", "_", "!", "@", "#", "$", "^",
      "&", "*", "+", "=", "|", "\\", "/", "\"", "'", "?", "~" }

\* cache.c:138-144  blocks[][2], in the order the loop visits them
blocks == << <<"(", ")">>, <<"{", "}">>, <<"[", "]">>, <<"<", ">">> >>

\* g_ascii_isspace, as used by g_strstrip
IsAsciiSpace(c) == c \in { " ", TAB, "\n", "\r", "\f" }

\* g_utf8_strdown on one character of the alphabet
LowerChar(c) ==
    CASE c = "A" -> "a"
      [] c = "B" -> "b"
      [] c = "T" -> "t"
      [] c = "X" -> "x"
      [] c = "C" -> "c"
      [] c = "O" -> "o"
      [] c = "V" -> "v"
      [] c = "E" -> "e"
      [] c = "R" -> "r"
      [] c = "J" -> "j"
      [] c = "P" -> "p"
      [] c = "G" -> "g"
      [] OTHER -> c

g_utf8_strdown(s) == [i \in 1..Len(s) |-> LowerChar(s[i])]

\* g_utf8_normalize (.., G_NORMALIZE_NFKD) on the alphabet: only the
\* no-break space has a compatibility decomposition
g_utf8_normalize(s) == [i \in 1..Len(s) |-> IF s[i] = NBSP THEN " " ELSE s[i]]

\* 0-based offset of the first ch in s at or after 0-based offset from; -1 if none
RECURSIVE StrChr(_, _, _)
StrChr(s, ch, from) ==
    IF from >= Len(s) THEN -1
    ELSE IF s[from + 1] = ch THEN from
    ELSE StrChr(s, ch, from + 1)

\* the suffix of s starting at 0-based offset k
Suffix(s, k) == IF k >= Len(s) THEN << >> ELSE SubSeq(s, k + 1, Len(s))

\* the first k characters of s
Prefix(s, k) == SubSeq(s, 1, k)

(***************************************************************************)
(* media_art_strip_find_next_block (cache.c:66-100)                        *)
(***************************************************************************)
find_next_block_greedy(original, open_char, close_char) ==
    LET p1 == StrChr(original, open_char, 0)
        lastClose == { k \in 0..(Len(original) - 1) :
                         k > p1 /\ original[k + 1] = close_char }
    IN  IF p1 = -1 THEN [found |-> FALSE, open_pos |-> -1, close_pos |-> -1]
        ELSE IF lastClose = {} THEN [found |-> FALSE, open_pos |-> p1, close_pos |-> -1]
        ELSE [found |-> TRUE, open_pos |-> p1,
              close_pos |-> CHOOSE k \in lastClose : \A j \in lastClose : j <= k]

media_art_strip_find_next_block(original, open_char, close_char) ==
    LET p1 == StrChr(original, open_char, 0)
        p2 == IF p1 = -1 THEN -1 ELSE StrChr(original, close_char, p1 + 1)
    IN  IF p1 = -1 THEN [found |-> FALSE, open_pos |-> -1, close_pos |-> -1]
        ELSE IF p2 = -1 THEN [found |-> FALSE, open_pos |-> p1, close_pos |-> -1]
        ELSE [found |-> TRUE, open_pos |-> p1, close_pos |-> p2]

(***************************************************************************)
(* The block loop of media_art_strip_invalid_entities (cache.c:155-191).   *)
(*   EarliestBlock is the inner for loop over blocks[]: pos1/pos2 after    *)
(*   the i-th kind has been looked at.                                     *)
(***************************************************************************)
RECURSIVE EarliestBlock(_, _, _)
EarliestBlock(p, i, pos) ==
    IF i > Len(blocks) THEN pos
    ELSE LET b == media_art_strip_find_next_block(p, blocks[i][1], blocks[i][2])
         IN  IF b.found /\ (pos.pos1 = -1 \/ b.open_pos < pos.pos1)
             THEN EarliestBlock(p, i + 1, [pos1 |-> b.open_pos, pos2 |-> b.close_pos])
             ELSE EarliestBlock(p, i + 1, pos)

RECURSIVE StripBlocks(_, _)
StripBlocks(p, str_no_blocks) ==
    LET pos == EarliestBlock(p, 1, [pos1 |-> -1, pos2 |-> -1])
    IN  IF pos.pos1 = -1
        THEN str_no_blocks \o p
        ELSE LET acc  == IF pos.pos1 > 0 THEN str_no_blocks \o Prefix(p, pos.pos1)
                                         ELSE str_no_blocks
                 rest == Suffix(p, pos.pos2 + 1)
             IN  IF rest = << >> THEN acc ELSE StripBlocks(rest, acc)

(***************************************************************************)
(* The later phases of media_art_strip_invalid_entities (cache.c:193-220). *)
(***************************************************************************)
\* g_strdelimit (str, delimiters, new_delim)
g_strdelimit(s, delimiters, new_delim) ==
    [i \in 1..Len(s) |-> IF s[i] \in delimiters THEN new_delim ELSE s[i]]

\* g_strsplit (str, "*", -1) followed by g_strjoinv (NULL, strv): the pieces
\* between the delimiters, concatenated
RECURSIVE SplitJoinNull(_, _)
SplitJoinNull(s, delim) ==
    IF s = << >> THEN << >>
    ELSE IF Head(s) = delim THEN SplitJoinNull(Tail(s), delim)
    ELSE <<Head(s)>> \o SplitJoinNull(Tail(s), delim)

\* g_strsplit (str, "  ", -1) followed by g_strjoinv (" ", strv): every
\* non-overlapping pair of spaces, found left to right, becomes one space
RECURSIVE SplitJoinDouble(_)
SplitJoinDouble(s) ==
    IF Len(s) < 2 THEN s
    ELSE IF s[1] = " " /\ s[2] = " " THEN <<" ">> \o SplitJoinDouble(Suffix(s, 2))
    ELSE <<Head(s)>> \o SplitJoinDouble(Tail(s))

HasDouble(s) == \E i \in 1..(Len(s) - 1) : s[i] = " " /\ s[i + 1] = " "

\* while (g_strrstr (str, "  ") != NULL) { split / join }
RECURSIVE RemoveDoubleSpaces(_)
RemoveDoubleSpaces(s) ==
    IF HasDouble(s) THEN RemoveDoubleSpaces(SplitJoinDouble(s)) ELSE s

\* g_strchug, g_strchomp
RECURSIVE g_strchug(_)
g_strchug(s) ==
    IF s # << >> /\ IsAsciiSpace(Head(s)) THEN g_strchug(Tail(s)) ELSE s

RECURSIVE g_strchomp(_)
g_strchomp(s) ==
    IF s # << >> /\ IsAsciiSpace(s[Len(s)]) THEN g_strchomp(Prefix(s, Len(s) - 1)) ELSE s

g_strstrip(s) == g_strchomp(g_strchug(s))

\* the string after the block loop only
BracketPhase(original) == StripBlocks(original, << >>)

\* AfterBlocks with the tab conversion moved after the double-space loop
AfterBlocks_tabs_last(str_no_blocks) ==
    LET lowered  == g_utf8_strdown(str_no_blocks)
        starred  == g_strdelimit(lowered, invalid_chars, "*")
        novalid  == SplitJoinNull(starred, "*")
        single   == RemoveDoubleSpaces(novalid)
        untabbed == g_strdelimit(single, {TAB}, " ")
    IN  g_strstrip(untabbed)

\* AfterBlocks without the final g_strstrip
AfterBlocks_no_strip(str_no_blocks) ==
    LET lowered  == g_utf8_strdown(str_no_blocks)
        starred  == g_strdelimit(lowered, invalid_chars, "*")
        novalid  == SplitJoinNull(starred, "*")
        untabbed == g_strdelimit(novalid, {TAB}, " ")
    IN  RemoveDoubleSpaces(untabbed)

\* the phases that follow the block loop
AfterBlocks(str_no_blocks) ==
    LET lowered  == g_utf8_strdown(str_no_blocks)
        starred  == g_strdelimit(lowered, invalid_chars, "*")
        novalid  == SplitJoinNull(starred, "*")
        untabbed == g_strdelimit(novalid, {TAB}, " ")
        single   == RemoveDoubleSpaces(untabbed)
    IN  g_strstrip(single)

(***************************************************************************)
(* media_art_strip_invalid_entities (cache.c:126-223)                      *)
(***************************************************************************)
\* media_art_strip_invalid_entities giving NULL for a string it strips to
\* nothing
strip_null_when_empty(original) ==
    IF original = NULL THEN NULL
    ELSE IF ~g_utf8_validate(original) THEN NULL
    ELSE IF AfterBlocks(BracketPhase(original)) = << >> THEN NULL
    ELSE AfterBlocks(BracketPhase(original))

media_art_strip_invalid_entities(original) ==
    IF original = NULL THEN NULL
    ELSE IF ~g_utf8_validate(original) THEN NULL
    ELSE AfterBlocks(BracketPhase(original))

(***************************************************************************)
(* media_art_checksum_for_data (cache.c:225-243): the lower-case hex MD5   *)
(* of the data.  The digests of the empty string and of a single space are *)
(* the two literals the storage layout names; every other digest is the    *)
(* data itself under a tag (MD5 taken to be injective).                    *)
(***************************************************************************)
media_art_checksum_for_data(data) ==
    CASE data = << >>    -> <<"d41d8cd98f00b204e9800998ecf8427e">>
      [] data = <<" ">>  -> <<"7215ee9c7d9dc229d2921a40e899ec5f">>
      [] OTHER           -> <<"md5">> \o data

\* cache.c:284
space_checksum == <<"7215ee9c7d9dc229d2921a40e899ec5f">>

\* FieldChecksum of the string as given, not stripped
FieldChecksum_unstripped(field) ==
    media_art_checksum_for_data(g_utf8_strdown(g_utf8_normalize(field)))

\* cache.c:312-317 and 321-326: strip, NFKD-normalise, lower, digest
FieldChecksum(field) ==
    media_art_checksum_for_data(
        g_utf8_strdown(g_utf8_normalize(media_art_strip_invalid_entities(field))))

(***************************************************************************)
(* media_art_get_file / media_art_get_path (cache.c:278-367, 392-418).     *)
(* A cache path <cache>/media-art/<prefix>-<a>-<b>.jpeg is the record of   *)
(* its three parts; tmp marks the path with "-tmp" appended.  NoPath is    *)
(* the NULL path of the failed precondition.                               *)
(***************************************************************************)
\* the absent prefix argument (prefixes are whole strings, not character
\* sequences: nothing looks inside them)
NullPrefix == "(null)"

NoPath == [prefix |-> "", a |-> << >>, b |-> << >>, tmp |-> FALSE]

get_file_swapped(artist, title, prefix) ==
    IF artist = NULL /\ title = NULL THEN NoPath
    ELSE [prefix |-> IF prefix = NullPrefix THEN "album" ELSE prefix,
          a |-> IF title # NULL THEN FieldChecksum(title) ELSE space_checksum,
          b |-> IF artist # NULL THEN FieldChecksum(artist) ELSE space_checksum,
          tmp |-> FALSE]

\* media_art_get_file with a lone title kept in the second place, after the
\* digest of " "
get_file_title_second(artist, title, prefix) ==
    IF (artist # NULL /\ ~g_utf8_validate(artist)) \/ (title # NULL /\ ~g_utf8_validate(title))
    THEN NoPath
    ELSE IF artist = NULL /\ title = NULL THEN NoPath
    ELSE [prefix |-> IF prefix = NullPrefix THEN "album" ELSE prefix,
          a |-> IF artist # NULL THEN FieldChecksum(artist) ELSE space_checksum,
          b |-> IF title # NULL THEN FieldChecksum(title) ELSE space_checksum,
          tmp |-> FALSE]

media_art_get_file(artist, title, prefix) ==
    IF (artist # NULL /\ ~g_utf8_validate(artist)) \/ (title # NULL /\ ~g_utf8_validate(title))
    THEN NoPath
    ELSE IF artist = NULL /\ title = NULL THEN NoPath
    ELSE LET a == IF artist # NULL THEN FieldChecksum(artist) ELSE FieldChecksum(title)
             b == IF artist # NULL
                  THEN (IF title # NULL THEN FieldChecksum(title) ELSE space_checksum)
                  ELSE space_checksum
         IN  [prefix |-> IF prefix = NullPrefix THEN "album" ELSE prefix,
              a |-> a, b |-> b, tmp |-> FALSE]

media_art_get_path(artist, title, prefix) == media_art_get_file(artist, title, prefix)

(***************************************************************************)
(* Image data.  A content is the format of its bytes and the picture they  *)
(* show:                                                                   *)
(*   jpeg  a JPEG file as found in the wild (starts FF D8 FF)              *)
(*   enc   the JPEG bytes the backend writes for a picture (FF D8 FF)      *)
(*   png   a PNG file                                                      *)
(*   bad   three bytes or more that no loader recognises                   *)
(*   tiny  fewer than three bytes                                          *)
(***************************************************************************)
NoData == [fmt |-> "none", pic |-> "none"]

Data(fmt, pic) == [fmt |-> fmt, pic |-> pic]

HasJpegMagic(data) == data.fmt \in { "jpeg", "enc" }

AtLeast3Bytes(data) == data.fmt # "tiny"

Decodable(data) == data.fmt \in { "jpeg", "enc", "png" }

\* gdk_pixbuf_save (pixbuf, target, "jpeg", ...): the bytes written for a picture
JpegOf(pic) == Data("enc", pic)

NullMime == "(null)"

(***************************************************************************)
(* The cache directory.  fs maps the paths that exist to files: a regular  *)
(* file with data and mtime, or a symbolic link to another path.           *)
(***************************************************************************)
RegFile(data, mtime) == [kind |-> "reg", data |-> data, mtime |-> mtime, to |-> NoPath]

LinkFile(to) == [kind |-> "link", data |-> NoData, mtime |-> 0, to |-> to]

\* the temporary file given the name of the file it is made for
TmpOf_same_name(path) == path

TmpOf(path) == [path EXCEPT !.tmp = TRUE]

\* the path a name resolves to when links are followed (one link deep is
\* all the library creates: links point at album files); NoPath if it
\* resolves to nothing
ResolvePath(fs, path) ==
    IF path \notin DOMAIN fs THEN NoPath
    ELSE IF fs[path].kind = "reg" THEN path
    ELSE LET to == fs[path].to
         IN  IF to \in DOMAIN fs /\ fs[to].kind = "reg" THEN to ELSE NoPath

\* g_file_test (path, G_FILE_TEST_EXISTS): stat () follows links
g_file_test_exists(fs, path) == ResolvePath(fs, path) # NoPath

\* the data read through a path; NoData when it cannot be opened
ReadData(fs, path) ==
    IF ResolvePath(fs, path) = NoPath THEN NoData ELSE fs[ResolvePath(fs, path)].data

Put(fs, path, file) == (path :> file) @@ fs

Drop(fs, path) == [q \in (DOMAIN fs) \ {path} |-> fs[q]]

\* A step of a handler works on st = [fs, log, fault]: the cache directory,
\* the list of the file system calls that changed it so far, and the call,
\* if any, that the system refuses during this handler for a reason outside
\* the directory (EACCES, EIO, ENOSPC): "none" or "rename".
Logged(st, call, path) == Append(st.log, [call |-> call, path |-> path])

\* fopen (path, "wb") + write: follows a link, creates what is missing
SysWriteThrough(st, path, data, now) ==
    LET dest == IF path \in DOMAIN st.fs /\ st.fs[path].kind = "link"
                THEN st.fs[path].to ELSE path
    IN  [st EXCEPT !.fs = Put(st.fs, dest, RegFile(data, now)),
                   !.log = Logged(st, "write", dest)]

\* g_file_set_contents: writes a sibling temporary file and renames it over
\* path, so a link at path is replaced, not followed
SysSetContents(st, path, data, now) ==
    [st EXCEPT !.fs = Put(st.fs, path, RegFile(data, now)),
               !.log = Logged(st, "write", path)]

\* symlink (target, linkpath) == 0
SymlinkOk(st, linkpath) == linkpath \notin DOMAIN st.fs

SysSymlink(st, target, linkpath) ==
    IF SymlinkOk(st, linkpath)
    THEN [st EXCEPT !.fs = Put(st.fs, linkpath, LinkFile(target)),
                    !.log = Logged(st, "symlink", linkpath)]
    ELSE st

\* g_rename (old, new) == 0
RenameOk(st, old) == old \in DOMAIN st.fs /\ st.fault # "rename"

SysRename(st, old, new) ==
    IF RenameOk(st, old)
    THEN [st EXCEPT !.fs = Put(Drop(st.fs, old), new, st.fs[old]),
                    !.log = Append(Logged(st, "rename", old),
                                   [call |-> "rename-to", path |-> new])]
    ELSE st

\* g_unlink (path)
SysUnlink(st, path) ==
    IF path \in DOMAIN st.fs
    THEN [st EXCEPT !.fs = Drop(st.fs, path), !.log = Logged(st, "unlink", path)]
    ELSE st

\* g_file_copy (source, destination, G_FILE_COPY_NONE, ...): the destination
\* is created exclusively, and gets the data and the mtime of the source
CopyOk(st, dst) == dst \notin DOMAIN st.fs

SysCopy(st, data, mtime, dst) ==
    IF CopyOk(st, dst)
    THEN [st EXCEPT !.fs = Put(st.fs, dst, RegFile(data, mtime)),
                    !.log = Logged(st, "copy", dst)]
    ELSE st

(***************************************************************************)
(* set_mtime (extract.c:1280-1288): utime () follows links and fails       *)
(* silently.  get_mtime (extract.c:1290-1314): 0 with an error when the    *)
(* file cannot be queried.                                                 *)
(***************************************************************************)
set_mtime(st, filename, mtime) ==
    LET dest == ResolvePath(st.fs, filename)
    IN  IF dest = NoPath THEN st
        ELSE [st EXCEPT !.fs = Put(st.fs, dest, [st.fs[dest] EXCEPT !.mtime = mtime]),
                        !.log = Logged(st, "utime", dest)]

get_mtime(fs, path) ==
    IF ResolvePath(fs, path) = NoPath THEN 0 ELSE fs[ResolvePath(fs, path)].mtime

(***************************************************************************)
(* The GdkPixbuf backend (extractpixbuf.c), max_width_in_bytes = 0 as      *)
(* media_art_process_initable_init sets it (extract.c:148).                *)
(* Results are [st, ret, err]: the return value and whether *error is set. *)
(***************************************************************************)
max_width_in_bytes == 0

IsJpegMime(mime) == mime = "image/jpeg" \/ mime = "JPG"

\* media_art_buffer_to_jpeg (extractpixbuf.c:91-178)
\*   bad:  gdk_pixbuf_loader_write fails with an error (lines 130-139)
\*   tiny: the loader has no pixbuf yet, FALSE without an error (143-152)
media_art_buffer_to_jpeg(st, buffer, buffer_mime, target, now) ==
    IF max_width_in_bytes < 0 THEN [st |-> st, ret |-> TRUE, err |-> "none"]
    ELSE IF /\ max_width_in_bytes = 0
            /\ IsJpegMime(buffer_mime)
            /\ (AtLeast3Bytes(buffer) /\ HasJpegMagic(buffer))
    THEN [st |-> SysSetContents(st, target, buffer, now), ret |-> TRUE, err |-> "none"]
    ELSE IF buffer.fmt = "bad" THEN [st |-> st, ret |-> FALSE, err |-> "codec"]
    ELSE IF buffer.fmt = "tiny" THEN [st |-> st, ret |-> FALSE, err |-> "none"]
    ELSE [st |-> SysWriteThrough(st, target, JpegOf(buffer.pic), now),
          ret |-> TRUE, err |-> "none"]

\* media_art_file_to_jpeg (extractpixbuf.c:44-70): gdk_pixbuf_new_from_file
\* fails with an error on a file it cannot decode
media_art_file_to_jpeg(st, data, target, now) ==
    IF ~Decodable(data) THEN [st |-> st, ret |-> FALSE, err |-> "codec"]
    ELSE [st |-> SysWriteThrough(st, target, JpegOf(data.pic), now),
          ret |-> TRUE, err |-> "none"]

(***************************************************************************)
(* checksum_for_data (extract.c:250-268) and file_get_checksum_if_exists   *)
(* (extract.c:270-373).  The MD5 of a content is the content under a tag.  *)
(***************************************************************************)
checksum_for_data(data) == [md5 |-> data]

NoSum == [md5 |-> NoData]

\* result: ok (the file could be opened), is_jpeg and md5 as the out
\* parameters are left (md5 stays NULL when the JPEG check stops the read)
file_get_checksum_if_exists(fs, path, check_jpeg) ==
    IF ResolvePath(fs, path) = NoPath
    THEN [ok |-> FALSE, is_jpeg |-> FALSE, md5 |-> NoSum]
    ELSE LET data == ReadData(fs, path)
         IN  IF check_jpeg /\ ~(AtLeast3Bytes(data) /\ HasJpegMagic(data))
             THEN [ok |-> TRUE, is_jpeg |-> FALSE, md5 |-> NoSum]
             ELSE [ok |-> TRUE, is_jpeg |-> check_jpeg, md5 |-> checksum_for_data(data)]

\* is_buffer_jpeg without the test of the length
is_buffer_jpeg_any_length(mime, buffer) ==
    IF IsJpegMime(mime) THEN TRUE
    ELSE HasJpegMagic(buffer)

\* is_buffer_jpeg (extract.c:947-968)
is_buffer_jpeg(mime, buffer) ==
    IF ~AtLeast3Bytes(buffer) THEN FALSE
    ELSE IF IsJpegMime(mime) THEN TRUE
    ELSE HasJpegMagic(buffer)

(***************************************************************************)
(* MediaArtType (extract.h:42-49) and media_art_type_name (extract.c:73).  *)
(***************************************************************************)
MEDIA_ART_ALBUM == "album"
MEDIA_ART_VIDEO == "video"

media_art_type_name(type) == type

\* extract.h:60-63
MEDIA_ART_PROCESS_FLAGS_NONE == 0
MEDIA_ART_PROCESS_FLAGS_FORCE == 1

\* the test of extract.c:1022, 773 and 400: only a NULL artist and the
\* artist " " are taken as "no artist"
ArtistUnknown(artist) == artist = NULL \/ artist = <<" ">>

\* result of a reconciliation step
Res(st, ret, err, branch) == [st |-> st, ret |-> ret, err |-> err, branch |-> branch]

(***************************************************************************)
(* media_art_set (extract.c:970-1256)                                      *)
(***************************************************************************)
\* steps 3 to 5 of media_art_set, when album_path exists
\* SetJpeg without the comparison of the digests: the target is linked to
\* the album file whatever the album file holds
SetJpeg_always_link(st, buffer, mime, artist_path, album_path, md5_album, now) ==
    IF SymlinkOk(st, artist_path)
    THEN Res(SysSymlink(st, album_path, artist_path), TRUE, "none", "set:jpeg-same")
    ELSE Res(st, FALSE, "symlink-failed", "set:jpeg-same")

SetJpeg(st, buffer, mime, artist_path, album_path, md5_album, now) ==
    IF checksum_for_data(buffer) = md5_album.md5
    THEN IF SymlinkOk(st, artist_path)
         THEN Res(SysSymlink(st, album_path, artist_path), TRUE, "none", "set:jpeg-same")
         ELSE Res(st, FALSE, "symlink-failed", "set:jpeg-same")
    ELSE With(media_art_buffer_to_jpeg(st, buffer, mime, artist_path, now), LAMBDA w :
             Res(w.st, IF w.err # "none" THEN FALSE ELSE w.ret, w.err, "set:jpeg-differs"))

SetConverted(st, buffer, mime, artist_path, album_path, md5_album, temp, now) ==
    With(media_art_buffer_to_jpeg(st, buffer, mime, temp, now), LAMBDA w :
        IF w.err # "none"
        THEN Res(SysUnlink(w.st, temp), FALSE, w.err, "set:convert-failed")
        ELSE With(file_get_checksum_if_exists(w.st.fs, temp, FALSE), LAMBDA md5_tmp :
            IF ~md5_tmp.ok
            THEN Res(SysUnlink(w.st, temp), FALSE, "io", "set:temp-unreadable")
            ELSE IF md5_tmp.md5 = md5_album.md5
            THEN IF SymlinkOk(w.st, artist_path)
                 THEN Res(SysUnlink(SysSymlink(w.st, album_path, artist_path), temp),
                          TRUE, "none", "set:converted-same")
                 ELSE Res(SysUnlink(w.st, temp), FALSE, "symlink-failed",
                          "set:converted-same")
            ELSE IF RenameOk(w.st, temp)
                 THEN Res(SysRename(w.st, temp, artist_path), TRUE, "none",
                          "set:converted-differs")
                 ELSE Res(SysUnlink(w.st, temp), FALSE, "rename-failed",
                          "set:converted-differs")))

SetWithAlbum(st, buffer, mime, artist_path, album_path, now) ==
    With(file_get_checksum_if_exists(st.fs, album_path, FALSE), LAMBDA md5_album :
        IF ~md5_album.ok
        THEN Res(st, TRUE, "io", "set:album-unreadable")
        ELSE IF is_buffer_jpeg(mime, buffer)
        THEN SetJpeg(st, buffer, mime, artist_path, album_path, md5_album, now)
        ELSE With(TmpOf(album_path), LAMBDA temp :
                 SetConverted(st, buffer, mime, artist_path, album_path, md5_album,
                              temp, now)))

SetAlbumMissing(st, buffer, mime, artist_path, album_path, now) ==
    With(media_art_buffer_to_jpeg(st, buffer, mime, album_path, now), LAMBDA w :
        IF w.err # "none"
        THEN Res(w.st, FALSE, w.err, "set:album-missing")
        ELSE IF SymlinkOk(w.st, artist_path)
        THEN Res(SysSymlink(w.st, album_path, artist_path), TRUE, "none",
                 "set:album-missing")
        ELSE Res(w.st, FALSE, "symlink-failed", "set:album-missing"))

SetPaths(st, buffer, mime, type, artist, artist_path, album_path, now) ==
    IF type # MEDIA_ART_ALBUM \/ ArtistUnknown(artist)
    THEN With(media_art_buffer_to_jpeg(st, buffer, mime, artist_path, now), LAMBDA w :
             Res(w.st, IF w.err # "none" THEN FALSE ELSE w.ret, w.err, "set:direct"))
    ELSE IF ~g_file_test_exists(st.fs, album_path)
    THEN SetAlbumMissing(st, buffer, mime, artist_path, album_path, now)
    ELSE SetWithAlbum(st, buffer, mime, artist_path, album_path, now)

media_art_set(st, buffer, mime, type, artist, title, now) ==
    IF title = NULL
    THEN Res(st, FALSE, "none", "set:precondition")
    ELSE With(media_art_get_path(artist, title, media_art_type_name(type)),
              LAMBDA artist_path :
         With(media_art_get_path(NULL, title, media_art_type_name(type)),
              LAMBDA album_path :
             SetPaths(st, buffer, mime, type, artist, artist_path, album_path, now)))

(***************************************************************************)
(* convert_from_other_format (extract.c:375-533)                           *)
(***************************************************************************)
ConvertShared(st, target, album_path, target_temp) ==
    With(file_get_checksum_if_exists(st.fs, target_temp, FALSE), LAMBDA sum1 :
    With(file_get_checksum_if_exists(st.fs, album_path, FALSE), LAMBDA sum2 :
        IF ~sum1.ok
        THEN Res(SysUnlink(st, target_temp), FALSE, "io", "conv:temp-unreadable")
        ELSE IF sum2.ok
        THEN IF sum1.md5 = sum2.md5
             THEN IF SymlinkOk(st, target)
                  THEN Res(SysUnlink(SysSymlink(st, album_path, target), target_temp),
                           TRUE, "none", "conv:same")
                  ELSE Res(SysUnlink(st, target_temp), FALSE, "rename-failed", "conv:same")
             ELSE IF RenameOk(st, target_temp)
                  THEN Res(SysRename(st, target_temp, album_path), TRUE, "none",
                           "conv:differs")
                  ELSE Res(st, FALSE, "rename-failed", "conv:differs")
        ELSE IF ~RenameOk(st, target_temp)
             THEN Res(SysUnlink(st, target_temp), FALSE, "rename-failed",
                      "conv:album-missing")
             ELSE With(SysRename(st, target_temp, album_path), LAMBDA r :
                      IF SymlinkOk(r, target)
                      THEN Res(SysSymlink(r, album_path, target), TRUE, "none",
                               "conv:album-missing")
                      ELSE Res(r, FALSE, "symlink-failed", "conv:album-missing"))))

convert_from_other_format(st, found, target, album_path, artist, now) ==
    With(TmpOf(target), LAMBDA target_temp :
    With(media_art_file_to_jpeg(st, found, target_temp, now), LAMBDA w :
        IF w.err # "none"
        THEN Res(SysUnlink(w.st, target_temp), FALSE, w.err, "conv:codec-failed")
        ELSE IF ArtistUnknown(artist)
        THEN IF RenameOk(w.st, target_temp)
             THEN Res(SysRename(w.st, target_temp, album_path), TRUE, "none",
                      "conv:no-artist")
             ELSE Res(SysUnlink(w.st, target_temp), FALSE, "rename-failed",
                      "conv:no-artist")
        ELSE ConvertShared(w.st, target, album_path, target_temp)))

(***************************************************************************)
(* The directory of the media file: a sequence of entries in the order     *)
(* g_dir_read_name returns them, each a file name with data and mtime.     *)
(***************************************************************************)
DirEntry(name, data, mtime) == [name |-> name, data |-> data, mtime |-> mtime]

NoEntry == DirEntry(<< >>, NoData, 0)

\* strstr (haystack, needle) != NULL
strstr(haystack, needle) ==
    \E i \in 0..(Len(haystack) - Len(needle)) :
        SubSeq(haystack, i + 1, i + Len(needle)) = needle

g_str_has_suffix(str, suffix) ==
    /\ Len(str) >= Len(suffix)
    /\ SubSeq(str, Len(str) - Len(suffix) + 1, Len(str)) = suffix

s_jpeg == <<"j", "p", "e", "g">>
s_jpg == <<"j", "p", "g">>
s_png == <<"p", "n", "g">>
s_cover == <<"c", "o", "v", "e", "r">>
s_front == <<"f", "r", "o", "n", "t">>
s_folder == <<"f", "o", "l", "d", "e", "r">>
s_poster == <<"p", "o", "s", "t", "e", "r">>
s_albumart == <<"a", "l", "b", "u", "m", "a", "r", "t">>
s_large == <<"l", "a", "r", "g", "e">>
s_small == <<"s", "m", "a", "l", "l">>

\* ImageMatchType (extract.c:86-91)
IMAGE_MATCH_EXACT == 0
IMAGE_MATCH_EXACT_SMALL == 1
IMAGE_MATCH_SAME_DIRECTORY == 2

\* media_art_search_new (extract.c:535-559)
media_art_search_new(type, artist, title) ==
    [type |-> type,
     artist_strdown |-> IF artist = NULL THEN NULL
                        ELSE g_utf8_strdown(media_art_strip_invalid_entities(artist)),
     title_strdown |-> g_utf8_strdown(media_art_strip_invalid_entities(title))]

\* classify_image_file that does not know "front"
classify_image_file_no_front(search, file_name_strdown) ==
    IF \/ /\ search.artist_strdown # NULL
          /\ search.artist_strdown # << >>
          /\ strstr(file_name_strdown, search.artist_strdown)
       \/ /\ search.title_strdown # NULL
          /\ search.title_strdown # << >>
          /\ strstr(file_name_strdown, search.title_strdown)
    THEN IMAGE_MATCH_EXACT
    ELSE IF /\ search.type = MEDIA_ART_ALBUM
            /\ \/ strstr(file_name_strdown, s_cover)
               \/ strstr(file_name_strdown, s_folder)
    THEN IMAGE_MATCH_EXACT
    ELSE IF /\ search.type = MEDIA_ART_ALBUM
            /\ strstr(file_name_strdown, s_albumart)
            /\ strstr(file_name_strdown, s_large)
    THEN IMAGE_MATCH_EXACT
    ELSE IF /\ search.type = MEDIA_ART_ALBUM
            /\ strstr(file_name_strdown, s_albumart)
            /\ strstr(file_name_strdown, s_small)
    THEN IMAGE_MATCH_EXACT_SMALL
    ELSE IF /\ search.type = MEDIA_ART_VIDEO
            /\ \/ strstr(file_name_strdown, s_folder)
               \/ strstr(file_name_strdown, s_poster)
    THEN IMAGE_MATCH_EXACT
    ELSE IMAGE_MATCH_SAME_DIRECTORY

\* classify_image_file (extract.c:571-611)
classify_image_file(search, file_name_strdown) ==
    IF \/ /\ search.artist_strdown # NULL
          /\ search.artist_strdown # << >>
          /\ strstr(file_name_strdown, search.artist_strdown)
       \/ /\ search.title_strdown # NULL
          /\ search.title_strdown # << >>
          /\ strstr(file_name_strdown, search.title_strdown)
    THEN IMAGE_MATCH_EXACT
    ELSE IF /\ search.type = MEDIA_ART_ALBUM
            /\ \/ strstr(file_name_strdown, s_cover)
               \/ strstr(file_name_strdown, s_front)
               \/ strstr(file_name_strdown, s_folder)
    THEN IMAGE_MATCH_EXACT
    ELSE IF /\ search.type = MEDIA_ART_ALBUM
            /\ strstr(file_name_strdown, s_albumart)
            /\ strstr(file_name_strdown, s_large)
    THEN IMAGE_MATCH_EXACT
    ELSE IF /\ search.type = MEDIA_ART_ALBUM
            /\ strstr(file_name_strdown, s_albumart)
            /\ strstr(file_name_strdown, s_small)
    THEN IMAGE_MATCH_EXACT_SMALL
    ELSE IF /\ search.type = MEDIA_ART_VIDEO
            /\ \/ strstr(file_name_strdown, s_folder)
               \/ strstr(file_name_strdown, s_poster)
    THEN IMAGE_MATCH_EXACT
    ELSE IMAGE_MATCH_SAME_DIRECTORY

\* the filter of extract.c:667-669 on the lower-cased name
IsImageName(name_strdown) ==
    \/ g_str_has_suffix(name_strdown, s_jpeg)
    \/ g_str_has_suffix(name_strdown, s_jpg)
    \/ g_str_has_suffix(name_strdown, s_png)

\* image_list[priority] after the directory has been read: g_list_prepend
\* puts the entry read last at the head
RECURSIVE ImageList(_, _, _)
ImageList(entries, search, priority) ==
    IF entries = << >> THEN << >>
    ELSE LET e == entries[Len(entries)]
             name_strdown == g_utf8_strdown(e.name)
             before == ImageList(Prefix(entries, Len(entries) - 1), search, priority)
         IN  IF IsImageName(name_strdown) /\ classify_image_file(search, name_strdown) = priority
             THEN <<e>> \o before
             ELSE before

\* media_art_find_by_artist_and_title taking the only picture of the
\* directory for an album too
find_any_type(entries, type, artist, title) ==
    LET search == media_art_search_new(type, artist, title)
        exact == ImageList(entries, search, IMAGE_MATCH_EXACT)
        small == ImageList(entries, search, IMAGE_MATCH_EXACT_SMALL)
        same  == ImageList(entries, search, IMAGE_MATCH_SAME_DIRECTORY)
    IN  IF Len(exact) > 0 THEN exact[1]
        ELSE IF Len(small) > 0 THEN small[1]
        ELSE IF Len(same) = 1 THEN same[1]
        ELSE NoEntry

\* media_art_find_by_artist_and_title (extract.c:613-714): the entry whose
\* path is returned, NoEntry for NULL
media_art_find_by_artist_and_title(entries, type, artist, title) ==
    LET search == media_art_search_new(type, artist, title)
        exact == ImageList(entries, search, IMAGE_MATCH_EXACT)
        small == ImageList(entries, search, IMAGE_MATCH_EXACT_SMALL)
        same  == ImageList(entries, search, IMAGE_MATCH_SAME_DIRECTORY)
    IN  IF Len(exact) > 0 THEN exact[1]
        ELSE IF Len(small) > 0 THEN small[1]
        ELSE IF type = MEDIA_ART_VIDEO /\ Len(same) = 1 THEN same[1]
        ELSE NoEntry

(***************************************************************************)
(* get_heuristic (extract.c:716-945).  entries is the directory of the     *)
(* media file.  The suffix tests of lines 765-766 and 921 are made on the  *)
(* file name as it is, not on the lower-cased one.                         *)
(***************************************************************************)
HeuristicJpegShared(st, art, target, album_art_file_path) ==
    With(checksum_for_data(art.data), LAMBDA sum1 :
    With(file_get_checksum_if_exists(st.fs, album_art_file_path, FALSE), LAMBDA sum2 :
        IF sum2.ok
        THEN IF sum1 = sum2.md5
             THEN IF SymlinkOk(st, target)
                  THEN Res(SysSymlink(st, album_art_file_path, target), TRUE, "none",
                           "heur:jpeg-same")
                  ELSE Res(st, FALSE, "symlink-failed", "heur:jpeg-same")
             ELSE IF CopyOk(st, target)
                  THEN Res(SysCopy(st, art.data, art.mtime, target), TRUE, "none",
                           "heur:jpeg-differs")
                  ELSE Res(st, FALSE, "exists", "heur:jpeg-differs")
        ELSE IF ~CopyOk(st, album_art_file_path)
             THEN Res(st, FALSE, "exists", "heur:album-missing")
             ELSE With(SysCopy(st, art.data, art.mtime, album_art_file_path), LAMBDA c :
                      IF SymlinkOk(c, target)
                      THEN Res(SysSymlink(c, album_art_file_path, target), TRUE, "none",
                               "heur:album-missing")
                      ELSE Res(c, FALSE, "symlink-failed", "heur:album-missing"))))

HeuristicJpeg(st, art, type, artist, target, album_art_file_path, now) ==
    IF type # MEDIA_ART_ALBUM \/ ArtistUnknown(artist)
    THEN \* lines 772-797: the result of g_file_copy is dropped, retval stays FALSE
         IF CopyOk(st, target)
         THEN Res(SysCopy(st, art.data, art.mtime, target), FALSE, "none", "heur:jpeg-direct")
         ELSE Res(st, FALSE, "exists", "heur:jpeg-direct")
    ELSE IF AtLeast3Bytes(art.data) /\ HasJpegMagic(art.data)
    THEN HeuristicJpegShared(st, art, target, album_art_file_path)
    ELSE convert_from_other_format(st, art.data, target, album_art_file_path, artist, now)

HeuristicFound(st, art, type, artist, target, album_art_file_path, now) ==
    IF art = NoEntry
    THEN Res(st, FALSE, "none", "heur:no-candidate")
    ELSE IF g_str_has_suffix(art.name, s_jpeg) \/ g_str_has_suffix(art.name, s_jpg)
    THEN HeuristicJpeg(st, art, type, artist, target, album_art_file_path, now)
    ELSE IF g_str_has_suffix(art.name, s_png)
    THEN convert_from_other_format(st, art.data, target, album_art_file_path, artist, now)
    ELSE Res(st, FALSE, "none", "heur:suffix-case")

get_heuristic(st, type, entries, artist, title, now) ==
    IF title = NULL \/ title = << >>
    THEN Res(st, FALSE, "no-title", "heur:no-title")
    ELSE
    With(IF artist # NULL THEN media_art_strip_invalid_entities(artist) ELSE NULL,
         LAMBDA artist_stripped :
    With(media_art_strip_invalid_entities(title), LAMBDA title_stripped :
    With(media_art_get_path(artist_stripped, title_stripped, media_art_type_name(type)),
         LAMBDA target :
    With(media_art_get_path(NULL, title_stripped, media_art_type_name(type)),
         LAMBDA album_art_file_path :
    With(media_art_find_by_artist_and_title(entries, type, artist, title), LAMBDA art :
        HeuristicFound(st, art, type, artist, target, album_art_file_path, now))))))

\* get_heuristic_for_parent_path (extract.c:1316-1346): "%s:%s:%s:%s"
get_heuristic_for_parent_path(parent_path, type, artist, title) ==
    parent_path \o <<":">> \o <<media_art_type_name(type)>> \o <<":">>
        \o (IF artist # NULL THEN artist ELSE << >>) \o <<":">>
        \o (IF title # NULL THEN title ELSE << >>)

(***************************************************************************)
(* A request.  mtime and entries are what the call finds when it looks at  *)
(* the related media file and at its directory: NoFile when the media file *)
(* does not exist.  cancel is the check point from which the cancellable   *)
(* is seen cancelled: 0 never, 1 from the first check, 2 from the check    *)
(* before the reconciliation, 3 only after the reconciliation.  fault is   *)
(* the file system call the system refuses during the call, "none" if none.*)
(***************************************************************************)
NoFile == 0 - 1

\* mtimes are 0..MaxTime; the calls are made at the latest time
MaxTime == 2

Now == MaxTime

parent_path == <<"/", "m">>

Cancelled(req, point) == req.cancel # 0 /\ req.cancel <= point

\* what a call reports and leaves: return value, error, the branch taken
Outcome(fs, memo, ok, err, branch, log) ==
    [fs |-> fs, memo |-> memo, ok |-> ok, err |-> err, branch |-> branch, log |-> log]

Start(fs) == [fs |-> fs, log |-> << >>, fault |-> "none"]

\* the start of the reconciliation of a request
StartFor(fs, req) == [fs |-> fs, log |-> << >>, fault |-> req.fault]

\* ProcessBufferCache with the cancellable looked at between media_art_set
\* and set_mtime: a cancelled call returns before the time is set
ProcessBufferCache_check_before_mtime(fs, memo, req, cache_art_path, cache_mtime) ==
    IF Cancelled(req, 1)
    THEN Outcome(fs, memo, FALSE, "cancelled", "cancelled", << >>)
    ELSE IF \/ req.flags = MEDIA_ART_PROCESS_FLAGS_FORCE
            \/ cache_mtime = 0
            \/ req.mtime > cache_mtime
    THEN With(media_art_set(StartFor(fs, req), req.buffer, req.mime, req.type, req.artist,
                            req.title, Now), LAMBDA s :
             IF Cancelled(req, 3)
             THEN Outcome(s.st.fs, memo, FALSE, s.err, s.branch, s.st.log)
             ELSE With(set_mtime(s.st, cache_art_path, req.mtime), LAMBDA m :
                      Outcome(m.fs, memo, s.ret, s.err, s.branch, m.log)))
    ELSE Outcome(fs, memo, ~Cancelled(req, 3), "none", "skip:current", << >>)

\* media_art_process_buffer (extract.c:1489-1602)
ProcessBufferCache(fs, memo, req, cache_art_path, cache_mtime) ==
    IF Cancelled(req, 1)
    THEN Outcome(fs, memo, FALSE, "cancelled", "cancelled", << >>)
    ELSE IF \/ req.flags = MEDIA_ART_PROCESS_FLAGS_FORCE
            \/ cache_mtime = 0
            \/ req.mtime > cache_mtime
    THEN With(media_art_set(StartFor(fs, req), req.buffer, req.mime, req.type, req.artist,
                            req.title, Now), LAMBDA s :
         With(set_mtime(s.st, cache_art_path, req.mtime), LAMBDA m :
             Outcome(m.fs, memo, IF Cancelled(req, 3) THEN FALSE ELSE s.ret,
                     s.err, s.branch, m.log)))
    ELSE Outcome(fs, memo, ~Cancelled(req, 3), "none", "skip:current", << >>)

media_art_process_buffer(fs, memo, req) ==
    IF req.artist = NULL /\ req.title = NULL
    THEN Outcome(fs, memo, FALSE, "none", "precondition", << >>)
    ELSE IF req.mtime = NoFile
    THEN Outcome(fs, memo, FALSE, "not-found", "not-found", << >>)
    ELSE With(media_art_get_file(req.artist, req.title, media_art_type_name(req.type)),
              LAMBDA cache_art_path :
         With(get_mtime(fs, cache_art_path), LAMBDA cache_mtime :
             ProcessBufferCache(fs, memo, req, cache_art_path, cache_mtime)))

\* media_art_process_file (extract.c:1737-1842); flags is not looked at
ProcessFileHeuristic(fs, memo, req, cache_art_path, hkey) ==
    With(get_heuristic(StartFor(fs, req), req.type, req.entries, req.artist, req.title, Now),
         LAMBDA h :
        IF ~h.ret
        THEN Outcome(h.st.fs, memo, FALSE, h.err, h.branch, h.st.log)
        ELSE With(set_mtime(h.st, cache_art_path, req.mtime), LAMBDA m :
                 Outcome(m.fs, memo \cup {hkey}, ~Cancelled(req, 3), "none",
                         h.branch, m.log)))

\* ProcessFileCache without the check of the cancellable before get_heuristic
ProcessFileCache_unchecked(fs, memo, req, cache_art_path, cache_mtime, hkey) ==
    IF ~(cache_mtime = 0 \/ cache_mtime < req.mtime)
    THEN Outcome(fs, memo, ~Cancelled(req, 3), "none", "skip:current", << >>)
    ELSE IF hkey \in memo
    THEN Outcome(fs, memo, ~Cancelled(req, 3), "none", "skip:memo", << >>)
    ELSE ProcessFileHeuristic(fs, memo, req, cache_art_path, hkey)

ProcessFileCache(fs, memo, req, cache_art_path, cache_mtime, hkey) ==
    IF ~(cache_mtime = 0 \/ cache_mtime < req.mtime)
    THEN Outcome(fs, memo, ~Cancelled(req, 3), "none", "skip:current", << >>)
    ELSE IF hkey \in memo
    THEN Outcome(fs, memo, ~Cancelled(req, 3), "none", "skip:memo", << >>)
    ELSE IF Cancelled(req, 2)
    THEN Outcome(fs, memo, FALSE, "cancelled", "cancelled", << >>)
    ELSE ProcessFileHeuristic(fs, memo, req, cache_art_path, hkey)

\* media_art_process_file taking a media file that is not there for one
\* with no mtime
process_file_absent_as_old(fs, memo, req) ==
    IF req.artist = NULL /\ req.title = NULL
    THEN Outcome(fs, memo, FALSE, "none", "precondition", << >>)
    ELSE IF Cancelled(req, 1)
    THEN Outcome(fs, memo, FALSE, "cancelled", "cancelled", << >>)
    ELSE With(media_art_get_file(req.artist, req.title, media_art_type_name(req.type)),
              LAMBDA cache_art_path :
         With(get_mtime(fs, cache_art_path), LAMBDA cache_mtime :
         With(get_heuristic_for_parent_path(parent_path, req.type, req.artist, req.title),
              LAMBDA hkey :
             ProcessFileCache(fs, memo, req, cache_art_path, cache_mtime, hkey))))

media_art_process_file(fs, memo, req) ==
    IF req.artist = NULL /\ req.title = NULL
    THEN Outcome(fs, memo, FALSE, "none", "precondition", << >>)
    ELSE IF req.mtime = NoFile
    THEN Outcome(fs, memo, FALSE, "not-found", "not-found", << >>)
    ELSE IF Cancelled(req, 1)
    THEN Outcome(fs, memo, FALSE, "cancelled", "cancelled", << >>)
    ELSE With(media_art_get_file(req.artist, req.title, media_art_type_name(req.type)),
              LAMBDA cache_art_path :
         With(get_mtime(fs, cache_art_path), LAMBDA cache_mtime :
         With(get_heuristic_for_parent_path(parent_path, req.type, req.artist, req.title),
              LAMBDA hkey :
             ProcessFileCache(fs, memo, req, cache_art_path, cache_mtime, hkey))))

\* media_art_process_uri (extract.c:1946-1978): g_file_new_for_uri, then
\* media_art_process_file
media_art_process_uri(fs, memo, req) == media_art_process_file(fs, memo, req)

\* process_thread (extract.c:1407-1457) and the _finish functions: the
\* caller gets FALSE and the error when one is set, the return value if not
process_thread(fs, memo, data) ==
    IF Cancelled(data.req, 1)
    THEN Outcome(fs, memo, FALSE, "cancelled", "cancelled", << >>)
    ELSE With(IF data.file THEN media_art_process_file(fs, memo, data.req)
              ELSE IF data.uri THEN media_art_process_uri(fs, memo, data.req)
              ELSE Outcome(fs, memo, FALSE, "none", "precondition", << >>),
              LAMBDA o : [o EXCEPT !.ok = IF o.err # "none" THEN FALSE ELSE o.ok])

\* media_art_remove (cache.c:438-545)
RemovePaths(fs, target, album_target) ==
    With(SysUnlink(Start(fs), target), LAMBDA u1 :
    With(IF album_target # NoPath THEN SysUnlink(u1, album_target) ELSE u1, LAMBDA u2 :
        IF Len(u2.log) > 0
        THEN [fs |-> u2.fs, ok |-> TRUE, err |-> "none", log |-> u2.log]
        ELSE [fs |-> u2.fs, ok |-> FALSE, err |-> "failed", log |-> u2.log]))

media_art_remove(fs, artist, album) ==
    IF artist = NULL \/ artist = << >>
    THEN [fs |-> fs, ok |-> FALSE, err |-> "none", log |-> << >>]
    ELSE With(media_art_get_path(artist, album, "album"), LAMBDA target :
         With(IF album # NULL THEN media_art_get_path(NULL, album, "album") ELSE NoPath,
              LAMBDA album_target :
             RemovePaths(fs, target, album_target)))

(***************************************************************************)
(* State.                                                                  *)
(*   key  : the inputs and results of the key-derivation functions         *)
(*   scan : a directory read for media art: the search, the file names,    *)
(*          the class of each and the entry picked                         *)
(*   fs   : the media-art cache directory, path -> file                    *)
(*   memo : media_art_cache of the MediaArtProcess object, a set of keys   *)
(*   task : the asynchronous request handed to the worker thread, if any   *)
(*   last : the last call that returned: its request and what it reported  *)
(*   ops  : the number of calls made so far                                *)
(*   workers : the threads of the task pool, each with the request it runs *)
(*          and the place in media_art_process_file it has come to         *)
(***************************************************************************)
VARIABLES key, scan, fs, memo, task, last, ops, workers

vars == <<key, scan, fs, memo, task, last, ops, workers>>

engine == <<fs, memo, task, last, ops, workers>>

EmptyFs == [q \in {} |-> RegFile(NoData, 0)]

Req(type, artist, title, buffer, mime, flags, mtime, entries, cancel) ==
    [type |-> type, artist |-> artist, title |-> title, buffer |-> buffer, mime |-> mime,
     flags |-> flags, mtime |-> mtime, entries |-> entries, cancel |-> cancel,
     fault |-> "none"]

NoReq == Req(MEDIA_ART_ALBUM, NULL, NULL, NoData, NullMime, MEDIA_ART_PROCESS_FLAGS_NONE,
             NoFile, << >>, 0)

NoTask == [op |-> "none", file |-> FALSE, uri |-> FALSE, req |-> NoReq]

NoCall == [op |-> "none", req |-> NoReq, ok |-> FALSE, err |-> "none",
           branch |-> "none", log |-> << >>]

\* no directory read
NoScan == [pc |-> "none", type |-> MEDIA_ART_ALBUM, artist |-> NULL, title |-> NULL,
           entries |-> << >>, name |-> << >>, priority |-> IMAGE_MATCH_SAME_DIRECTORY,
           found |-> NoEntry]

Returned(op, req, o) ==
    [op |-> op, req |-> req, ok |-> o.ok, err |-> o.err, branch |-> o.branch, log |-> o.log]

\* the threads g_task_run_in_thread runs process_thread on
Workers == { "thread1", "thread2" }

NoSumResult == [ok |-> FALSE, is_jpeg |-> FALSE, md5 |-> NoSum]

\* a thread with no task: the locals of media_art_process_file, of
\* get_heuristic and of convert_from_other_format it will use
NoWorker == [pc |-> "none", req |-> NoReq, parent |-> << >>, found |-> NoData,
             sum1 |-> NoSumResult, sum2 |-> NoSumResult, retval |-> FALSE, err |-> "none"]

NoWorkers == [w \in Workers |-> NoWorker]

\* the process object just made by media_art_process_new over an empty
\* cache directory (extract.c:127-160)
EngineIdle ==
    /\ fs = EmptyFs
    /\ memo = {}
    /\ task = NoTask
    /\ last = NoCall
    /\ ops = 0
    /\ workers = NoWorkers

\* all strings over alphabet of length at most n
RECURSIVE StringsUpTo(_, _)
StringsUpTo(alphabet, n) ==
    IF n = 0 THEN { << >> }
    ELSE LET shorter == StringsUpTo(alphabet, n - 1)
         IN  shorter \cup { Append(t, c) : t \in { u \in shorter : Len(u) = n - 1 },
                                            c \in alphabet }

\* two alphabets, so that all four bracket kinds occur and any two kinds
\* of one alphabet interleave
StripBase == { "A", " ", TAB, "_" }

\* strings that are not valid UTF-8, and strings with a line break
OtherStripInputs ==
    { <<BadByte>>, <<"A", BadByte>>, <<"\n">>, <<"\n", "A", " ", "\n">>, <<"A", "\n", "B">> }

StripInputs ==
    StringsUpTo(StripBase \cup { "(", ")", "[", "]" }, MaxLen)
      \cup StringsUpTo(StripBase \cup { "{", "}", "<", ">" }, MaxLen)
      \cup OtherStripInputs
      \cup { NULL }

KeyIdle == [pc |-> "idle", artist |-> NULL, title |-> NULL, prefix |-> NullPrefix,
            nb |-> NULL, r1 |-> NULL, r2 |-> NULL, path |-> NoPath, hpath |-> NoPath]

(***************************************************************************)
(* Normalisation of one string: SpecStrip.                                 *)
(***************************************************************************)
InitStrip ==
    \E s \in StripInputs :
        /\ key = [KeyIdle EXCEPT !.pc = "in", !.artist = s, !.title = s]
        /\ scan = NoScan
        /\ EngineIdle

\* media_art_strip_invalid_entities (original)
Strip ==
    /\ key.pc = "in"
    /\ key' = [key EXCEPT !.pc = "stripped",
                          !.nb = IF key.artist = NULL \/ ~g_utf8_validate(key.artist)
                                 THEN NULL
                                 ELSE BracketPhase(key.artist),
                          !.r1 = media_art_strip_invalid_entities(key.artist)]
    /\ UNCHANGED <<scan, engine>>

\* media_art_strip_invalid_entities applied to its own result, as
\* media_art_get_path does to the strings get_heuristic hands it
Restrip ==
    /\ key.pc = "stripped"
    /\ key' = [key EXCEPT !.pc = "restripped",
                          !.r2 = media_art_strip_invalid_entities(key.r1)]
    /\ UNCHANGED <<scan, engine>>

\* the cache path of media_art_process_file (extract.c:1785-1790, raw
\* strings) and the target of get_heuristic (extract.c:738-746, stripped
\* strings) for the same request
HeuristicPaths ==
    /\ key.pc = "restripped"
    /\ key.artist # NULL
    /\ g_utf8_validate(key.artist)
    /\ key' = [key EXCEPT !.pc = "paths",
                          !.path = media_art_get_file(key.artist, key.title, "album"),
                          !.hpath = media_art_get_path(
                                       media_art_strip_invalid_entities(key.artist),
                                       media_art_strip_invalid_entities(key.title),
                                       "album")]
    /\ UNCHANGED <<scan, engine>>

NextStrip == Strip \/ Restrip \/ HeuristicPaths

SpecStrip == InitStrip /\ [][NextStrip]_vars

(***************************************************************************)
(* Path derivation: SpecPath.                                              *)
(***************************************************************************)
PathStrings ==
    { NULL, << >>, <<" ">>, <<"a">>, <<"A">>, <<"b">>, <<"t">>, <<"T">>,
      <<"a", "(", "x", ")">>, <<"_">>, <<" ", "a", " ">>, <<TAB>>, <<NBSP>> }

PathPrefixes == { NullPrefix, "album", "video" }

InitPath ==
    \E a \in PathStrings, t \in PathStrings, p \in PathPrefixes :
        /\ key = [KeyIdle EXCEPT !.pc = "args", !.artist = a, !.title = t, !.prefix = p]
        /\ scan = NoScan
        /\ EngineIdle

\* media_art_get_path (artist, title, prefix, &cache_path); with both
\* strings absent the precondition fails and no path is returned
GetPath ==
    /\ key.pc = "args"
    /\ key' = [key EXCEPT !.pc = "resolved",
                          !.path = media_art_get_path(key.artist, key.title, key.prefix)]
    /\ UNCHANGED <<scan, engine>>

NextPath == GetPath

SpecPath == InitPath /\ [][NextPath]_vars

(***************************************************************************)
(* The library at work: Spec.  Calls are made on one MediaArtProcess; the  *)
(* requests are drawn from the sets below.                                 *)
(***************************************************************************)
MaxOps == 2

Entity(type, artist, title) == [type |-> type, artist |-> artist, title |-> title]

\* two album entries that share the title, and the entries the code treats
\* apart: no artist, the artist " ", a video, no title
TrackA == Entity(MEDIA_ART_ALBUM, <<"A">>, <<"T">>)
TrackB == Entity(MEDIA_ART_ALBUM, <<"b">>, <<"T">>)

Tracks == { TrackA, TrackB }

OtherEntities ==
    { Entity(MEDIA_ART_ALBUM, NULL, <<"T">>),
      Entity(MEDIA_ART_ALBUM, <<" ">>, <<"T">>),
      Entity(MEDIA_ART_VIDEO, <<"A">>, <<"T">>),
      Entity(MEDIA_ART_ALBUM, <<"A">>, NULL) }

Entities == Tracks \cup OtherEntities

\* an entry whose title is the empty string
EmptyTitle == Entity(MEDIA_ART_ALBUM, <<"A">>, << >>)

Art(buffer, mime) == [buffer |-> buffer, mime |-> mime]

JpegP == Art(Data("jpeg", "p"), "image/jpeg")
PngP == Art(Data("png", "p"), "image/png")

\* buffers the codec accepts: JPEG and PNG bytes of two pictures, the JPEG
\* one also without a mime type
GoodArts == { JpegP, Art(Data("jpeg", "p"), NullMime), PngP,
              Art(Data("jpeg", "q"), "image/jpeg") }

\* PNG bytes declared as JPEG
PngAsJpeg == Art(Data("png", "p"), "image/jpeg")

\* buffers it does not: bytes no loader knows, and fewer bytes than a
\* loader needs
BadArts == { Art(Data("bad", "none"), "image/png"), Art(Data("tiny", "none"), "image/jpeg") }

cover_jpg == s_cover \o <<".">> \o s_jpg
cover_png == s_cover \o <<".">> \o s_png
COVER_JPG == <<"C", "O", "V", "E", "R", ".", "J", "P", "G">>
x_jpg == <<"x", ".">> \o s_jpg

CoverJpgP == <<DirEntry(cover_jpg, Data("jpeg", "p"), 1)>>
CoverPngP == <<DirEntry(cover_png, Data("png", "p"), 1)>>

GoodDirectories == { CoverJpgP, CoverPngP, <<DirEntry(cover_jpg, Data("jpeg", "q"), 1)>> }

OtherDirectories ==
    { << >>,
      <<DirEntry(cover_jpg, Data("bad", "none"), 1)>>,
      <<DirEntry(COVER_JPG, Data("jpeg", "p"), 1)>>,
      <<DirEntry(x_jpg, Data("jpeg", "p"), 1)>> }

\* flags and media-file mtime: a file as old as the cache entry made for
\* it, a newer one, and the force flag on the old one
FlagsAndTimes ==
    { <<MEDIA_ART_PROCESS_FLAGS_NONE, 1>>, <<MEDIA_ART_PROCESS_FLAGS_NONE, MaxTime>>,
      <<MEDIA_ART_PROCESS_FLAGS_FORCE, 1>> }

BufferReq(e, a, flags, mtime, cancel) ==
    Req(e.type, e.artist, e.title, a.buffer, a.mime, flags, mtime, << >>, cancel)

FileReq(e, d, flags, mtime, cancel) ==
    Req(e.type, e.artist, e.title, NoData, NullMime, flags, mtime, d, cancel)

BufferRequests ==
    { BufferReq(TrackA, a, ft[1], ft[2], 0) : a \in GoodArts, ft \in FlagsAndTimes }
      \cup { BufferReq(TrackB, a, MEDIA_ART_PROCESS_FLAGS_NONE, 1, 0) : a \in GoodArts }
      \cup { BufferReq(e, a, MEDIA_ART_PROCESS_FLAGS_NONE, 1, 0) :
                e \in OtherEntities, a \in { JpegP, PngP } }
      \cup { BufferReq(TrackA, a, MEDIA_ART_PROCESS_FLAGS_NONE, 1, 0) : a \in BadArts }
      \cup { BufferReq(TrackA, PngAsJpeg, MEDIA_ART_PROCESS_FLAGS_NONE, MaxTime, 0) }
      \cup { BufferReq(TrackA, JpegP, MEDIA_ART_PROCESS_FLAGS_NONE, mt, 0) :
                mt \in { 0, NoFile } }
      \cup { BufferReq(TrackA, JpegP, MEDIA_ART_PROCESS_FLAGS_NONE, 1, c) : c \in 1..3 }
      \cup { BufferReq(EmptyTitle, JpegP, MEDIA_ART_PROCESS_FLAGS_NONE, 1, 0) }

FileRequests ==
    { FileReq(TrackA, d, ft[1], ft[2], 0) : d \in GoodDirectories, ft \in FlagsAndTimes }
      \cup { FileReq(TrackB, d, MEDIA_ART_PROCESS_FLAGS_NONE, 1, 0) : d \in GoodDirectories }
      \cup { FileReq(e, d, MEDIA_ART_PROCESS_FLAGS_NONE, 1, 0) :
                e \in OtherEntities, d \in { CoverJpgP, CoverPngP } }
      \cup { FileReq(TrackA, d, MEDIA_ART_PROCESS_FLAGS_NONE, 1, 0) : d \in OtherDirectories }
      \cup { FileReq(TrackA, << >>, MEDIA_ART_PROCESS_FLAGS_NONE, MaxTime, 0) }
      \cup { FileReq(TrackA, CoverJpgP, MEDIA_ART_PROCESS_FLAGS_NONE, mt, 0) :
                mt \in { 0, NoFile } }
      \cup { FileReq(TrackA, CoverJpgP, MEDIA_ART_PROCESS_FLAGS_NONE, 1, c) : c \in 1..3 }
      \cup { FileReq(EmptyTitle, CoverJpgP, MEDIA_ART_PROCESS_FLAGS_NONE, 1, 0) }


\* the directory of the related file is there for the worker to read
AsyncBufferRequests ==
    { Req(TrackA.type, TrackA.artist, TrackA.title, a.buffer, a.mime,
          MEDIA_ART_PROCESS_FLAGS_NONE, 1, d, c) :
        a \in { JpegP }, d \in { << >>, CoverJpgP }, c \in { 0, 1 } }

AsyncFileRequests ==
    { FileReq(TrackA, CoverJpgP, MEDIA_ART_PROCESS_FLAGS_NONE, 1, c) : c \in { 0, 1 } }
      \cup { FileReq(TrackA, CoverJpgP, MEDIA_ART_PROCESS_FLAGS_NONE, NoFile, 0) }

\* the cache directory as an earlier process left it: empty, or after one
\* media_art_process_buffer call of that process
SeedRequests ==
    { BufferReq(TrackA, a, MEDIA_ART_PROCESS_FLAGS_NONE, 1, 0) : a \in { JpegP, PngP } }

InitialCaches ==
    { EmptyFs } \cup { media_art_process_buffer(EmptyFs, {}, r).fs : r \in SeedRequests }

Init ==
    /\ key = KeyIdle
    /\ scan = NoScan
    /\ fs \in InitialCaches
    /\ memo = {}
    /\ task = NoTask
    /\ last = NoCall
    /\ ops = 0
    /\ workers = NoWorkers

Call(op, req, o) ==
    /\ fs' = o.fs
    /\ memo' = o.memo
    /\ last' = Returned(op, req, o)

\* media_art_process_buffer
ProcessBuffer ==
    \E req \in BufferRequests :
        /\ task = NoTask
        /\ ops < MaxOps
        /\ \E o \in { media_art_process_buffer(fs, memo, req) } : Call("process_buffer", req, o)
        /\ ops' = ops + 1
        /\ UNCHANGED <<key, scan, task, workers>>

\* media_art_process_file
ProcessFile ==
    \E req \in FileRequests :
        /\ task = NoTask
        /\ ops < MaxOps
        /\ \E o \in { media_art_process_file(fs, memo, req) } : Call("process_file", req, o)
        /\ ops' = ops + 1
        /\ UNCHANGED <<key, scan, task, workers>>

\* media_art_process_buffer_async (extract.c:1643-1665): process_data_new
\* gets the related file and no uri
ProcessBufferAsync ==
    \E req \in AsyncBufferRequests :
        /\ task = NoTask
        /\ ops < MaxOps
        /\ task' = [op |-> "process_buffer_async", file |-> TRUE, uri |-> FALSE, req |-> req]
        /\ ops' = ops + 1
        /\ UNCHANGED <<key, scan, fs, memo, last, workers>>

\* media_art_process_file_async (extract.c:1881-1901)
ProcessFileAsync ==
    \E req \in AsyncFileRequests :
        /\ task = NoTask
        /\ ops < MaxOps
        /\ task' = [op |-> "process_file_async", file |-> TRUE, uri |-> FALSE, req |-> req]
        /\ ops' = ops + 1
        /\ UNCHANGED <<key, scan, fs, memo, last, workers>>

\* media_art_process_uri_async (extract.c:2016-2037)
ProcessUriAsync ==
    \E req \in AsyncFileRequests :
        /\ task = NoTask
        /\ ops < MaxOps
        /\ task' = [op |-> "process_uri_async", file |-> FALSE, uri |-> TRUE, req |-> req]
        /\ ops' = ops + 1
        /\ UNCHANGED <<key, scan, fs, memo, last, workers>>

\* the worker thread runs process_thread and the caller's callback calls
\* the _finish function
ProcessThread ==
    /\ task # NoTask
    /\ \E o \in { process_thread(fs, memo, task) } : Call(task.op, task.req, o)
    /\ task' = NoTask
    /\ UNCHANGED <<key, scan, ops, workers>>

\* what media_art_remove is called for: the entries, and no artist and no
\* album
RemoveArguments == Entities \cup { Entity(MEDIA_ART_ALBUM, NULL, NULL) }

\* media_art_remove
Remove ==
    \E e \in RemoveArguments :
        /\ task = NoTask
        /\ ops < MaxOps
        /\ \E o \in { media_art_remove(fs, e.artist, e.title) } :
               /\ fs' = o.fs
               /\ last' = [op |-> "remove",
                           req |-> [NoReq EXCEPT !.artist = e.artist, !.title = e.title],
                           ok |-> o.ok, err |-> o.err, branch |-> "remove", log |-> o.log]
        /\ ops' = ops + 1
        /\ UNCHANGED <<key, scan, memo, task, workers>>

\* the process object is finalized (extract.c:109-119) and a new one made
NewProcess ==
    /\ task = NoTask
    /\ memo # {}
    /\ memo' = {}
    /\ last' = NoCall
    /\ UNCHANGED <<key, scan, fs, task, ops, workers>>

Next ==
    \/ ProcessBuffer
    \/ ProcessFile
    \/ ProcessBufferAsync
    \/ ProcessFileAsync
    \/ ProcessUriAsync
    \/ ProcessThread
    \/ Remove
    \/ NewProcess

Spec == Init /\ [][Next]_vars

(***************************************************************************)
(* Requests on the threads of the task pool: SpecThreads.                  *)
(* media_art_process_file_async hands the request to g_task_run_in_thread  *)
(* (extract.c:1894-1898); process_thread runs media_art_process_file on a  *)
(* pool thread, and two requests run on two threads at once.  Every call   *)
(* that reads or changes the cache directory or the memo table is a step.  *)
(* The requests are for media files with a cover.png next to them, so that *)
(* get_heuristic goes through convert_from_other_format.                   *)
(***************************************************************************)
other_parent_path == <<"/", "n">>

CoverPngQ == <<DirEntry(cover_png, Data("png", "q"), 1)>>

\* a media file in /m with the picture p as cover.png, another in /n with
\* the picture q
ThreadRequests ==
    { [req |-> FileReq(e, d[2], MEDIA_ART_PROCESS_FLAGS_NONE, 1, 0), parent |-> d[1]] :
        e \in Tracks, d \in { <<parent_path, CoverPngP>>, <<other_parent_path, CoverPngQ>> } }

InitThreads ==
    /\ key = KeyIdle
    /\ scan = NoScan
    /\ fs \in InitialCaches
    /\ memo = {}
    /\ task = NoTask
    /\ last = NoCall
    /\ ops = 0
    /\ workers = NoWorkers

\* cache_art_path of media_art_process_file (extract.c:1785-1790)
WorkerCachePath(w) ==
    media_art_get_file(workers[w].req.artist, workers[w].req.title,
                       media_art_type_name(workers[w].req.type))

\* key of media_art_process_file (extract.c:1799)
WorkerKey(w) ==
    get_heuristic_for_parent_path(workers[w].parent, workers[w].req.type,
                                  workers[w].req.artist, workers[w].req.title)

\* target and album_art_file_path of get_heuristic (extract.c:738-746,
\* 922-927)
WorkerTarget(w) ==
    media_art_get_path(media_art_strip_invalid_entities(workers[w].req.artist),
                       media_art_strip_invalid_entities(workers[w].req.title),
                       media_art_type_name(workers[w].req.type))

WorkerAlbum(w) ==
    media_art_get_path(NULL, media_art_strip_invalid_entities(workers[w].req.title),
                       media_art_type_name(workers[w].req.type))

\* target_temp of convert_from_other_format (extract.c:388)
WorkerTemp(w) == TmpOf(WorkerTarget(w))

\* the thread returns from media_art_process_file with retval and error
WorkerReturn(w, retval, err) ==
    workers' = [workers EXCEPT ![w].pc = "returned", ![w].retval = retval, ![w].err = err]

\* the thread is inside g_hash_table_lookup or g_hash_table_insert
InMemoTable(w) == workers[w].pc \in { "looking", "inserting" }

\* media_art_process_file_async (extract.c:1881-1901)
RunInThread(w) ==
    \E t \in ThreadRequests :
        /\ workers[w].pc = "none"
        /\ workers' = [workers EXCEPT ![w] = [NoWorker EXCEPT !.pc = "queued", !.req = t.req,
                                                             !.parent = t.parent]]
        /\ UNCHANGED <<key, scan, fs, memo, task, last, ops>>

\* process_thread (extract.c:1418) and media_art_process_file up to
\* no_cache_or_old (extract.c:1768-1793)
ThreadStart(w) ==
    /\ workers[w].pc = "queued"
    /\ IF Cancelled(workers[w].req, 1) THEN WorkerReturn(w, FALSE, "cancelled")
       ELSE IF workers[w].req.mtime = NoFile THEN WorkerReturn(w, FALSE, "not-found")
       ELSE \E cache_mtime \in { get_mtime(fs, WorkerCachePath(w)) } :
               IF cache_mtime = 0 \/ cache_mtime < workers[w].req.mtime
               THEN workers' = [workers EXCEPT ![w].pc = "lookup"]
               ELSE WorkerReturn(w, ~Cancelled(workers[w].req, 3), "none")
    /\ UNCHANGED <<key, scan, fs, memo, task, last, ops>>

\* the thread calls g_hash_table_lookup (extract.c:1801); nothing keeps
\* another thread out of the table
MemoLookupBegin(w) ==
    /\ workers[w].pc = "lookup"
    /\ workers' = [workers EXCEPT ![w].pc = "looking"]
    /\ UNCHANGED <<key, scan, fs, memo, task, last, ops>>

\* g_hash_table_lookup returns: what it finds is not defined while another
\* thread is inside g_hash_table_insert.  With the key not found the
\* thread goes on into get_heuristic, which looks for the candidate
\* (extract.c:1805-1806, 730-751)
MemoLookupEnd(w) ==
    /\ workers[w].pc = "looking"
    /\ \E found_key \in IF \E v \in Workers \ {w} : workers[v].pc = "inserting"
                        THEN BOOLEAN ELSE { WorkerKey(w) \in memo } :
          IF found_key
          THEN WorkerReturn(w, ~Cancelled(workers[w].req, 3), "none")
          ELSE IF Cancelled(workers[w].req, 2)
          THEN WorkerReturn(w, FALSE, "cancelled")
          ELSE \E art \in { media_art_find_by_artist_and_title(
                               workers[w].req.entries, workers[w].req.type,
                               workers[w].req.artist, workers[w].req.title) } :
                  IF art # NoEntry /\ g_str_has_suffix(art.name, s_png)
                  THEN workers' = [workers EXCEPT ![w].pc = "convert", ![w].found = art.data]
                  ELSE WorkerReturn(w, FALSE, "none")
    /\ UNCHANGED <<key, scan, fs, memo, task, last, ops>>

\* media_art_file_to_jpeg (found, target_temp) (extract.c:388-397)
FileToJpeg(w) ==
    /\ workers[w].pc = "convert"
    /\ \E j \in { media_art_file_to_jpeg(Start(fs), workers[w].found, WorkerTemp(w), Now) } :
          IF j.err # "none"
          THEN /\ fs' = SysUnlink(j.st, WorkerTemp(w)).fs
               /\ WorkerReturn(w, FALSE, j.err)
          ELSE /\ fs' = j.st.fs
               /\ workers' = [workers EXCEPT ![w].pc = "sum1"]
    /\ UNCHANGED <<key, scan, memo, task, last, ops>>

\* file_get_checksum_if_exists (target_temp, &sum1) (extract.c:427-439)
SumTemp(w) ==
    /\ workers[w].pc = "sum1"
    /\ \E sum \in { file_get_checksum_if_exists(fs, WorkerTemp(w), FALSE) } :
          IF ~sum.ok
          THEN /\ fs' = SysUnlink(Start(fs), WorkerTemp(w)).fs
               /\ WorkerReturn(w, FALSE, "io")
          ELSE /\ fs' = fs
               /\ workers' = [workers EXCEPT ![w].pc = "sum2", ![w].sum1 = sum]
    /\ UNCHANGED <<key, scan, memo, task, last, ops>>

\* file_get_checksum_if_exists (album_path, &sum2) (extract.c:441-446)
SumAlbum(w) ==
    /\ workers[w].pc = "sum2"
    /\ workers' = [workers EXCEPT
                     ![w].pc = "place",
                     ![w].sum2 = file_get_checksum_if_exists(fs, WorkerAlbum(w), FALSE)]
    /\ UNCHANGED <<key, scan, fs, memo, task, last, ops>>

\* the symlink or g_rename the two digests lead to (extract.c:448-508)
Place(w) ==
    /\ workers[w].pc = "place"
    /\ \E st \in { Start(fs) } :
          IF workers[w].sum2.ok /\ workers[w].sum1.md5 = workers[w].sum2.md5
          THEN /\ fs' = SysSymlink(st, WorkerAlbum(w), WorkerTarget(w)).fs
               /\ workers' = [workers EXCEPT
                                ![w].pc = "unlink",
                                ![w].retval = SymlinkOk(st, WorkerTarget(w)),
                                ![w].err = IF SymlinkOk(st, WorkerTarget(w)) THEN "none"
                                           ELSE "rename-failed"]
          ELSE /\ fs' = SysRename(st, WorkerTemp(w), WorkerAlbum(w)).fs
               /\ workers' = [workers EXCEPT
                                ![w].pc = IF workers[w].sum2.ok THEN "after"
                                          ELSE IF RenameOk(st, WorkerTemp(w)) THEN "link"
                                          ELSE "unlink",
                                ![w].retval = RenameOk(st, WorkerTemp(w)),
                                ![w].err = IF RenameOk(st, WorkerTemp(w)) THEN "none"
                                           ELSE "rename-failed"]
    /\ UNCHANGED <<key, scan, memo, task, last, ops>>

\* symlink (album_path, target) after the rename (extract.c:510-520)
Link(w) ==
    /\ workers[w].pc = "link"
    /\ \E st \in { Start(fs) } :
          /\ fs' = SysSymlink(st, WorkerAlbum(w), WorkerTarget(w)).fs
          /\ workers' = [workers EXCEPT
                           ![w].pc = "after",
                           ![w].retval = SymlinkOk(st, WorkerTarget(w)),
                           ![w].err = IF SymlinkOk(st, WorkerTarget(w)) THEN "none"
                                      ELSE "symlink-failed"]
    /\ UNCHANGED <<key, scan, memo, task, last, ops>>

\* g_unlink (target_temp) (extract.c:469, 508)
UnlinkTemp(w) ==
    /\ workers[w].pc = "unlink"
    /\ fs' = SysUnlink(Start(fs), WorkerTemp(w)).fs
    /\ workers' = [workers EXCEPT ![w].pc = "after"]
    /\ UNCHANGED <<key, scan, memo, task, last, ops>>

\* back in media_art_process_file: return FALSE, or set_mtime
\* (extract.c:1806-1817)
SetMtime(w) ==
    /\ workers[w].pc = "after"
    /\ IF ~workers[w].retval
       THEN /\ fs' = fs
            /\ WorkerReturn(w, FALSE, workers[w].err)
       ELSE /\ fs' = set_mtime(Start(fs), WorkerCachePath(w), workers[w].req.mtime).fs
            /\ workers' = [workers EXCEPT ![w].pc = "insert"]
    /\ UNCHANGED <<key, scan, memo, task, last, ops>>

\* the thread calls g_hash_table_insert (extract.c:1819-1821)
MemoInsertBegin(w) ==
    /\ workers[w].pc = "insert"
    /\ workers' = [workers EXCEPT ![w].pc = "inserting"]
    /\ UNCHANGED <<key, scan, fs, memo, task, last, ops>>

\* g_hash_table_insert returns, and media_art_process_file after it
\* (extract.c:841); the entry may be lost when another thread is in the
\* table at the same time
MemoInsertEnd(w) ==
    /\ workers[w].pc = "inserting"
    /\ memo' \in IF \E v \in Workers \ {w} : InMemoTable(v)
                 THEN { memo \cup { WorkerKey(w) }, memo }
                 ELSE { memo \cup { WorkerKey(w) } }
    /\ WorkerReturn(w, ~Cancelled(workers[w].req, 3), "none")
    /\ UNCHANGED <<key, scan, fs, task, last, ops>>

NextThreads ==
    \E w \in Workers :
        \/ RunInThread(w)
        \/ ThreadStart(w)
        \/ MemoLookupBegin(w)
        \/ MemoLookupEnd(w)
        \/ FileToJpeg(w)
        \/ SumTemp(w)
        \/ SumAlbum(w)
        \/ Place(w)
        \/ Link(w)
        \/ UnlinkTemp(w)
        \/ SetMtime(w)
        \/ MemoInsertBegin(w)
        \/ MemoInsertEnd(w)

SpecThreads == InitThreads /\ [][NextThreads]_vars

(***************************************************************************)
(* The life of the cache of one entry in one process: the media files of   *)
(* two tracks of an album are processed, modified and processed again, and *)
(* their media art removed, in any order.                                  *)
(***************************************************************************)
MaxCycleOps == 4

\* the media file of a track next to cover.jpg, as first written and after
\* it was modified
CycleFileRequests ==
    { FileReq(e, CoverJpgP, MEDIA_ART_PROCESS_FLAGS_NONE, mt, 0) :
        e \in Tracks, mt \in { 1, MaxTime } }

CycleBufferRequests ==
    { BufferReq(TrackA, JpegP, MEDIA_ART_PROCESS_FLAGS_NONE, mt, 0) : mt \in { 1, MaxTime } }

InitCycle ==
    /\ key = KeyIdle
    /\ scan = NoScan
    /\ EngineIdle

\* media_art_process_file
CycleProcessFile ==
    \E req \in CycleFileRequests :
        /\ ops < MaxCycleOps
        /\ \E o \in { media_art_process_file(fs, memo, req) } : Call("process_file", req, o)
        /\ ops' = ops + 1
        /\ UNCHANGED <<key, scan, task, workers>>

\* media_art_process_buffer
CycleProcessBuffer ==
    \E req \in CycleBufferRequests :
        /\ ops < MaxCycleOps
        /\ \E o \in { media_art_process_buffer(fs, memo, req) } :
               Call("process_buffer", req, o)
        /\ ops' = ops + 1
        /\ UNCHANGED <<key, scan, task, workers>>

\* media_art_remove
CycleRemove ==
    \E e \in Tracks :
        /\ ops < MaxCycleOps
        /\ \E o \in { media_art_remove(fs, e.artist, e.title) } :
               /\ fs' = o.fs
               /\ last' = [op |-> "remove",
                           req |-> [NoReq EXCEPT !.artist = e.artist, !.title = e.title],
                           ok |-> o.ok, err |-> o.err, branch |-> "remove", log |-> o.log]
        /\ ops' = ops + 1
        /\ UNCHANGED <<key, scan, memo, task, workers>>

NextCycle ==
    \/ CycleProcessFile
    \/ CycleProcessBuffer
    \/ CycleRemove

SpecCycle == InitCycle /\ [][NextCycle]_vars

(***************************************************************************)
(* The search for media art in the directory of a media file:              *)
(* SpecClassify.  A file name is classified for a search, and a directory  *)
(* is read and one of its entries picked.                                  *)
(***************************************************************************)
SearchTypes == { MEDIA_ART_ALBUM, MEDIA_ART_VIDEO }

\* artists: none, one letter, one that is blank, one that is all in brackets
SearchArtists == { NULL, <<"A">>, <<" ">>, <<"(", "A", ")">> }

\* titles (never NULL nor "" past get_heuristic): a letter, a letter of
\* "cover", one that is blank
SearchTitles == { <<"T">>, <<"c">>, <<" ">> }

dot_jpg == <<".">> \o s_jpg

\* the words classify_image_file looks for, and single letters
NameParts ==
    { s_cover, s_front, s_folder, s_poster, s_albumart, s_large, s_small,
      <<"x">>, <<"a">>, <<"t">> }

\* file names of one word or two, lower case as g_utf8_strdown leaves them
SearchNames ==
    { w \o dot_jpg : w \in NameParts } \cup { v \o w \o dot_jpg : v \in NameParts, w \in NameParts }

DirFile(name) == DirEntry(name, Data("jpeg", "p"), 1)

\* the files a directory is made of: one for each class, two unrelated
\* ones, and one that is no picture
DirectoryFiles ==
    { DirFile(cover_jpg), DirFile(s_albumart \o s_small \o dot_jpg),
      DirFile(x_jpg), DirFile(<<"y", ".">> \o s_png), DirFile(<<"n", ".", "t", "x", "t">>) }

MaxDirLen == 3

RECURSIVE DirectoriesUpTo(_)
DirectoriesUpTo(n) ==
    IF n = 0 THEN { << >> }
    ELSE LET shorter == DirectoriesUpTo(n - 1)
         IN  shorter \cup { Append(d, f) : d \in { e \in shorter : Len(e) = n - 1 },
                                            f \in DirectoryFiles }

\* directories without the same name twice
SearchDirectories ==
    { d \in DirectoriesUpTo(MaxDirLen) :
        \A i \in 1..Len(d), j \in 1..Len(d) : (i # j) => d[i].name # d[j].name }

InitClassify ==
    /\ key = KeyIdle
    /\ EngineIdle
    /\ \E ty \in SearchTypes, a \in SearchArtists, t \in SearchTitles :
          \/ \E n \in SearchNames :
                scan = [NoScan EXCEPT !.pc = "name", !.type = ty, !.artist = a,
                                      !.title = t, !.name = n]
          \/ \E d \in SearchDirectories :
                scan = [NoScan EXCEPT !.pc = "directory", !.type = ty, !.artist = a,
                                      !.title = t, !.entries = d]

\* classify_image_file (search, name_strdown) for the search that
\* media_art_search_new makes
Classify ==
    /\ scan.pc = "name"
    /\ scan' = [scan EXCEPT !.pc = "classified",
                            !.priority = classify_image_file(
                                media_art_search_new(scan.type, scan.artist, scan.title),
                                g_utf8_strdown(scan.name))]
    /\ UNCHANGED <<key, engine>>

\* media_art_find_by_artist_and_title
Find ==
    /\ scan.pc = "directory"
    /\ scan' = [scan EXCEPT !.pc = "found",
                            !.found = media_art_find_by_artist_and_title(
                                scan.entries, scan.type, scan.artist, scan.title)]
    /\ UNCHANGED <<key, engine>>

NextClassify == Classify \/ Find

SpecClassify == InitClassify /\ [][NextClassify]_vars

(***************************************************************************)
(* Specification SpecFault: conversions in which the system may refuse     *)
(* g_rename.  media_art_process_file finds a PNG file next to the media    *)
(* file, media_art_process_buffer is given PNG bytes, so each call runs    *)
(* the temporary-file branch of convert_from_other_format or media_art_set.*)
(***************************************************************************)
MaxFaultOps == 2

Faults == { "none", "rename" }

PngQ == Art(Data("png", "q"), "image/png")

\* an album entry without an artist
NoArtist == Entity(MEDIA_ART_ALBUM, NULL, <<"T">>)

FaultFileRequests ==
    { [FileReq(e, d, MEDIA_ART_PROCESS_FLAGS_NONE, MaxTime, 0) EXCEPT !.fault = f] :
        e \in Tracks \cup { NoArtist }, d \in { CoverPngP, CoverPngQ }, f \in Faults }

FaultBufferRequests ==
    { [BufferReq(e, a, MEDIA_ART_PROCESS_FLAGS_FORCE, MaxTime, 0) EXCEPT !.fault = f] :
        e \in Tracks, a \in { PngP, PngQ }, f \in Faults }

InitFault ==
    /\ key = KeyIdle
    /\ scan = NoScan
    /\ fs \in InitialCaches
    /\ memo = {}
    /\ task = NoTask
    /\ last = NoCall
    /\ ops = 0
    /\ workers = NoWorkers

\* media_art_process_file
FaultProcessFile ==
    \E req \in FaultFileRequests :
        /\ ops < MaxFaultOps
        /\ \E o \in { media_art_process_file(fs, memo, req) } : Call("process_file", req, o)
        /\ ops' = ops + 1
        /\ UNCHANGED <<key, scan, task, workers>>

\* media_art_process_buffer
FaultProcessBuffer ==
    \E req \in FaultBufferRequests :
        /\ ops < MaxFaultOps
        /\ \E o \in { media_art_process_buffer(fs, memo, req) } : Call("process_buffer", req, o)
        /\ ops' = ops + 1
        /\ UNCHANGED <<key, scan, task, workers>>

NextFault == FaultProcessFile \/ FaultProcessBuffer

SpecFault == InitFault /\ [][NextFault]_vars

(***************************************************************************)
(* Properties of the key derivation.                                       *)
(***************************************************************************)
OpenChars == { blocks[i][1] : i \in 1..Len(blocks) }
BracketChars == OpenChars \cup { blocks[i][2] : i \in 1..Len(blocks) }
CloseOf(c) == LET i == CHOOSE k \in 1..Len(blocks) : blocks[k][1] = c IN blocks[i][2]

\* positions (1-based) of the open brackets of s that have their close later
MatchedOpens(s) ==
    { i \in 1..Len(s) : /\ s[i] \in OpenChars
                         /\ \E j \in (i + 1)..Len(s) : s[j] = CloseOf(s[i]) }

SetMin(S) == CHOOSE x \in S : \A y \in S : x <= y

\* the reference procedure: delete the earliest-starting region from an open
\* bracket to the first later close of its kind, until there is none
RECURSIVE RefBracket(_)
RefBracket(s) ==
    IF MatchedOpens(s) = {} THEN s
    ELSE LET i == SetMin(MatchedOpens(s))
             j == SetMin({ k \in (i + 1)..Len(s) : s[k] = CloseOf(s[i]) })
         IN  RefBracket(SubSeq(s, 1, i - 1) \o SubSeq(s, j + 1, Len(s)))

\* C9: normalisation is idempotent, so the target get_heuristic derives from
\* the stripped artist and title is the cache path media_art_process_file
\* derives from the raw ones
C9_StripIdempotent ==
    /\ key.pc \in { "restripped", "paths" } => key.r2 = key.r1
    /\ key.pc = "paths" => key.hpath = key.path

C9_Witness ==
    /\ key.pc = "paths"
    /\ key.r1 # key.artist
    /\ key.r1 # << >>
    /\ key.hpath # NoPath

\* C10: the block loop equals the earliest-open / first-close reference
\* procedure, leaves no open bracket with its close later, and every
\* bracket character it leaves is gone from the final result
C10_BracketPhase ==
    (key.pc \in { "stripped", "restripped", "paths" } /\ key.nb # NULL) =>
        /\ key.nb = RefBracket(key.artist)
        /\ MatchedOpens(key.nb) = {}
        /\ \A i \in 1..Len(key.r1) : key.r1[i] \notin BracketChars

\* a block was deleted between two pieces of text and an unmatched bracket
\* was left behind
C10_Witness ==
    /\ key.pc = "stripped"
    /\ key.artist # NULL
    /\ Len(key.nb) < Len(key.artist)
    /\ \E i \in 1..Len(key.nb) : key.nb[i] \in BracketChars
    /\ key.nb # << >> /\ key.nb[1] = key.artist[1]
    /\ key.r1 # << >>

\* C8: the cache file name is <prefix or "album">-<D1>-<D2>.jpeg with the
\* artist digest first and the title digest (or the sentinel) second, the
\* title digest first and the sentinel second when the artist is absent; a
\* field that normalises to the empty string has the digest d41d8cd9...
C8_PathLayout ==
    (key.pc = "resolved" /\ (key.artist # NULL \/ key.title # NULL)) =>
        LET Digest(f) == media_art_checksum_for_data(
                             g_utf8_strdown(g_utf8_normalize(
                                 media_art_strip_invalid_entities(f))))
            EmptyDigest == <<"d41d8cd98f00b204e9800998ecf8427e">>
            Sentinel == <<"7215ee9c7d9dc229d2921a40e899ec5f">>
        IN  /\ key.path.prefix = (IF key.prefix = NullPrefix THEN "album" ELSE key.prefix)
            /\ ~key.path.tmp
            /\ key.artist # NULL =>
                   /\ key.path.a = Digest(key.artist)
                   /\ key.path.b = (IF key.title # NULL THEN Digest(key.title) ELSE Sentinel)
            /\ key.artist = NULL =>
                   /\ key.path.a = Digest(key.title)
                   /\ key.path.b = Sentinel
            /\ (key.artist # NULL /\ media_art_strip_invalid_entities(key.artist) = << >>)
                   => key.path.a = EmptyDigest
            /\ (key.title # NULL /\ media_art_strip_invalid_entities(key.title) = << >>)
                   => (IF key.artist # NULL THEN key.path.b ELSE key.path.a) = EmptyDigest

\* a blank artist with a title, and an absent artist with a title
C8_Witness ==
    /\ key.pc = "resolved"
    /\ key.artist = <<" ">>
    /\ key.title = <<"T">>
    /\ key.prefix = NullPrefix
    /\ key.path = [prefix |-> "album",
                   a |-> <<"d41d8cd98f00b204e9800998ecf8427e">>,
                   b |-> <<"md5", "t">>, tmp |-> FALSE]

\* C11: the path is a function of the normalised artist and title and of
\* the prefix alone: any present artist and title that normalise to what
\* the artist and title of the call normalise to give the path the call
\* gave; the artists "" and " " give the same path.
C11_PathDeterministic ==
    (key.pc = "resolved" /\ key.artist # NULL /\ key.title # NULL) =>
        /\ \A a2 \in PathStrings \ { NULL }, t2 \in PathStrings \ { NULL } :
               ( /\ media_art_strip_invalid_entities(a2)
                      = media_art_strip_invalid_entities(key.artist)
                 /\ media_art_strip_invalid_entities(t2)
                      = media_art_strip_invalid_entities(key.title) )
               => media_art_get_path(a2, t2, key.prefix) = key.path
        /\ key.artist = << >> => key.path = media_art_get_path(<<" ">>, key.title, key.prefix)

\* a path that artists and titles written in other ways share
C11_Witness ==
    /\ key.pc = "resolved"
    /\ key.artist = <<" ", "a", " ">>
    /\ key.title = << >>
    /\ key.prefix = "video"
    /\ key.path = media_art_get_path(<<"a", "(", "x", ")">>, <<"_">>, "video")
    /\ key.path # media_art_get_path(<<"b">>, << >>, "video")

\* C12 as stated: media_art_strip_invalid_entities returns NULL if and only
\* if its argument is NULL, and an empty string for the empty string.
C12_NullIffAbsent ==
    key.pc \in { "stripped", "restripped", "paths" } =>
        /\ key.r1 = NULL <=> key.artist = NULL
        /\ key.artist = << >> => key.r1 = << >>

\* C12, amended: media_art_strip_invalid_entities returns NULL if and only
\* if its argument is NULL or is not valid UTF-8, and an empty string for
\* the empty string.
C12_NullIffAbsentOrInvalid ==
    key.pc \in { "stripped", "restripped", "paths" } =>
        /\ key.r1 = NULL <=> (key.artist = NULL \/ \E i \in 1..Len(key.artist) :
                                                      key.artist[i] = BadByte)
        /\ key.artist = << >> => key.r1 = << >>

\* a string that is there and is not valid UTF-8 gave NULL
C12_Witness ==
    /\ key.pc = "stripped"
    /\ key.artist = <<"A", BadByte>>
    /\ key.r1 = NULL

SetBranches ==
    { "set:direct", "set:album-missing", "set:jpeg-same", "set:jpeg-differs",
      "set:convert-failed", "set:temp-unreadable", "set:converted-same",
      "set:converted-differs", "set:album-unreadable" }

\* the branches of get_heuristic that work on a candidate
HeuristicBranches ==
    { "heur:jpeg-direct", "heur:jpeg-same", "heur:jpeg-differs", "heur:album-missing",
      "conv:codec-failed", "conv:no-artist", "conv:temp-unreadable", "conv:same",
      "conv:differs", "conv:album-missing" }

TargetOf(req) == media_art_get_path(req.artist, req.title, media_art_type_name(req.type))

AlbumOf(req) == media_art_get_path(NULL, req.title, media_art_type_name(req.type))

\* the bytes a returned call was given to reconcile from
SourceArt(call) ==
    IF call.op = "process_buffer" THEN call.req.buffer
    ELSE IF call.req.title = NULL THEN NoData
    ELSE media_art_find_by_artist_and_title(call.req.entries, call.req.type,
                                            call.req.artist, call.req.title).data

\* this step is a synchronous call of op
SyncCall(op) ==
    /\ task = NoTask
    /\ task' = NoTask
    /\ ops' = ops + 1
    /\ last'.op = op

\* C1: when media_art_process_buffer has run media_art_set on a buffer the
\* codec accepts and returned success, the path media_art_get_path gives for
\* the same artist, title and type exists and resolves, through a symbolic
\* link or not, to JPEG data of the picture of the buffer.
C1_RoundTrip ==
    ( /\ last.op = "process_buffer"
      /\ last.ok
      /\ last.branch \in SetBranches
      /\ Decodable(last.req.buffer) )
    => /\ g_file_test_exists(fs, TargetOf(last.req))
       /\ HasJpegMagic(ReadData(fs, TargetOf(last.req)))
       /\ ReadData(fs, TargetOf(last.req)).pic = last.req.buffer.pic

C1_Witness ==
    /\ last.op = "process_buffer"
    /\ last.ok
    /\ last.branch = "set:jpeg-same"
    /\ Decodable(last.req.buffer)
    /\ fs[TargetOf(last.req)].kind = "link"
    /\ ReadData(fs, TargetOf(last.req)) = last.req.buffer

\* C2: the worker of media_art_process_buffer_async leaves the cache and
\* reports the result that media_art_process_buffer leaves and reports for
\* the same request from the same cache.
C2_AsyncSameAsSync ==
    [][ (task.op = "process_buffer_async" /\ task' = NoTask)
        => \E o \in { media_art_process_buffer(fs, memo, task.req) } :
              /\ fs' = o.fs
              /\ last'.ok = (IF o.err # "none" THEN FALSE ELSE o.ok)
              /\ last'.err = o.err ]_vars

\* an album entry with an artist that is present and not blank, reconciled
\* with success
TrackReconciled(call) ==
    /\ call.op \in { "process_buffer", "process_file" }
    /\ call.ok
    /\ call.branch \in SetBranches \cup HeuristicBranches
    /\ call.req.type = MEDIA_ART_ALBUM
    /\ call.req.title # NULL
    /\ call.req.artist # NULL
    /\ media_art_strip_invalid_entities(call.req.artist) # << >>

\* C3: when two album entries of one title and different artists have been
\* reconciled one after the other from the same bytes, both targets are
\* symbolic links to the title-only album file, the one regular file.
C3_AlbumDedup ==
    [][ ( /\ TrackReconciled(last)
          /\ \/ SyncCall("process_buffer")
             \/ SyncCall("process_file")
          /\ TrackReconciled(last')
          /\ last'.req.title = last.req.title
          /\ TargetOf(last'.req) # TargetOf(last.req)
          /\ SourceArt(last') = SourceArt(last) )
        => /\ TargetOf(last.req) \in DOMAIN fs'
           /\ TargetOf(last'.req) \in DOMAIN fs'
           /\ fs'[TargetOf(last.req)] = LinkFile(AlbumOf(last.req))
           /\ fs'[TargetOf(last'.req)] = LinkFile(AlbumOf(last.req))
           /\ g_file_test_exists(fs', AlbumOf(last.req)) ]_vars

\* C4: a media_art_process_buffer or media_art_process_file call without
\* the force flag, on a cache file that exists with an mtime not older than
\* the media file's, changes nothing in the cache directory or the memo
\* table and returns success.
C4_StalenessSkip ==
    [][ ( /\ \/ SyncCall("process_buffer")
             \/ SyncCall("process_file")
          /\ last'.req.flags = MEDIA_ART_PROCESS_FLAGS_NONE
          /\ last'.req.cancel = 0
          /\ last'.req.mtime # NoFile
          /\ g_file_test_exists(fs, TargetOf(last'.req))
          /\ get_mtime(fs, TargetOf(last'.req)) >= last'.req.mtime )
        => /\ last'.log = << >>
           /\ fs' = fs
           /\ memo' = memo
           /\ last'.ok ]_vars

\* C5: with MEDIA_ART_PROCESS_FLAGS_FORCE, media_art_process_buffer runs
\* media_art_set and media_art_process_file runs get_heuristic, whatever
\* the mtime of the cache file.
C5_Force ==
    [][ ( /\ \/ SyncCall("process_buffer")
             \/ SyncCall("process_file")
          /\ last'.req.flags = MEDIA_ART_PROCESS_FLAGS_FORCE
          /\ last'.req.cancel = 0
          /\ last'.req.mtime # NoFile
          /\ g_file_test_exists(fs, TargetOf(last'.req))
          /\ get_mtime(fs, TargetOf(last'.req)) >= last'.req.mtime )
        => last'.branch \notin { "skip:current", "skip:memo" } ]_vars

\* C6: a reconciliation that runs on a target path that exists, from a
\* source the codec accepts, succeeds and leaves the target resolving to
\* the art of that source.
C6_Overwrite ==
    [][ ( /\ \/ SyncCall("process_buffer")
             \/ SyncCall("process_file")
          /\ last'.req.cancel = 0
          /\ last'.branch \in SetBranches \cup HeuristicBranches
          /\ Decodable(SourceArt(last'))
          /\ g_file_test_exists(fs, TargetOf(last'.req)) )
        => /\ last'.ok
           /\ g_file_test_exists(fs', TargetOf(last'.req))
           /\ ReadData(fs', TargetOf(last'.req)).pic = SourceArt(last').pic ]_vars

\* C7: a media_art_process_file call that follows a call with the same
\* arguments, the media file and its directory being as they were, makes
\* no file system call that changes the cache directory.
C7_Idempotent ==
    [][ ( /\ last.op = "process_file"
          /\ SyncCall("process_file")
          /\ last'.req = last.req )
        => /\ last'.log = << >>
           /\ fs' = fs ]_vars

(***************************************************************************)
(* Properties of requests that run at the same time.                       *)
(***************************************************************************)
\* the thread has written its temporary file and not yet renamed or
\* unlinked it
HoldsTemp(w) == workers[w].pc \in { "sum1", "sum2", "place", "unlink" }

\* the next call of the thread writes, reads, renames or unlinks its
\* temporary file
TouchesTemp(w) ==
    \/ workers[w].pc \in { "convert", "sum1", "unlink" }
    \/ /\ workers[w].pc = "place"
       /\ ~(workers[w].sum2.ok /\ workers[w].sum1.md5 = workers[w].sum2.md5)

\* C14: no thread writes, reads for its digest, renames or unlinks a
\* temporary file that another thread has written and is still working
\* with, and the digest a thread reads from its temporary file is the
\* digest of the JPEG made from its own candidate.
C14_TempPrivate ==
    [][ \A w \in Workers :
          /\ (workers'[w] # workers[w] /\ TouchesTemp(w))
                => \A v \in Workers \ {w} :
                      HoldsTemp(v) => WorkerTemp(v) # WorkerTemp(w)
          /\ workers'[w].pc = "sum2"
                => workers'[w].sum1.md5 = checksum_for_data(JpegOf(workers'[w].found.pic))
      ]_vars

\* C15: no two threads are inside g_hash_table_lookup or
\* g_hash_table_insert on the memo table at the same time.
C15_MemoGuarded ==
    \A v \in Workers, w \in Workers :
        (v # w) => ~(InMemoTable(v) /\ InMemoTable(w))

(***************************************************************************)
(* Properties of cancellation and of the errors reported.                  *)
(***************************************************************************)
\* media_art_process_file gets past its preconditions and the query of the
\* media file (extract.c:1753-1778)
ReachesFileChecks(req) ==
    /\ ~(req.artist = NULL /\ req.title = NULL)
    /\ req.mtime # NoFile

\* no_cache_or_old of media_art_process_file (extract.c:1793-1797)
no_cache_or_old(f, req) ==
    With(get_mtime(f, media_art_get_file(req.artist, req.title,
                                         media_art_type_name(req.type))),
         LAMBDA cache_mtime : cache_mtime = 0 \/ cache_mtime < req.mtime)

\* media_art_process_file comes to one of its two checks of the cancellable
\* before get_heuristic (extract.c:1780, 1805) and sees it cancelled
FileCancelSeen(f, m, req) ==
    /\ ReachesFileChecks(req)
    /\ \/ Cancelled(req, 1)
       \/ /\ Cancelled(req, 2)
          /\ no_cache_or_old(f, req)
          /\ get_heuristic_for_parent_path(parent_path, req.type, req.artist,
                                           req.title) \notin m

\* media_art_process_buffer comes to its check of the cancellable before
\* media_art_set (extract.c:1545) and sees it cancelled
BufferCancelSeen(req) ==
    /\ ReachesFileChecks(req)
    /\ Cancelled(req, 1)

\* this step is the worker finishing the task handed to it
TaskDone == task # NoTask /\ task' = NoTask

\* C16: a call that sees the cancellable cancelled at a check it comes to
\* before media_art_set or get_heuristic (in process_thread, in
\* media_art_process_buffer, at either check of media_art_process_file)
\* leaves the cache files, their mtimes and the memo table as they were and
\* reports failure with the cancelled error.
C16_CancelBeforeWork ==
    [][ ( \/ SyncCall("process_buffer") /\ BufferCancelSeen(last'.req)
          \/ SyncCall("process_file") /\ FileCancelSeen(fs, memo, last'.req)
          \/ TaskDone /\ ( \/ Cancelled(task.req, 1)
                           \/ FileCancelSeen(fs, memo, task.req) ) )
        => /\ fs' = fs
           /\ memo' = memo
           /\ ~last'.ok
           /\ last'.err = "cancelled"
      ]_vars

\* media_art_process_file came to the second check, over a cache that holds
\* files of another entity, and left there
C16_Witness ==
    /\ last.op = "process_file"
    /\ last.req.cancel = 2
    /\ last.branch = "cancelled"
    /\ ~last.ok
    /\ fs # EmptyFs
    /\ ~g_file_test_exists(fs, TargetOf(last.req))

\* the processing operations a caller gets a result from
ProcessingOps ==
    { "process_buffer", "process_file", "process_buffer_async", "process_file_async",
      "process_uri_async" }

\* C17: a processing operation whose arguments pass its preconditions reports
\* failure if and only if it reports an error: the caller never gets FALSE
\* with no error and never TRUE with an error.
C17_ResultAndError ==
    (last.op \in ProcessingOps /\ last.branch # "precondition")
    => (~last.ok <=> last.err # "none")

\* this step is a processing operation returning to its caller
ProcessingReturn == (\E op \in ProcessingOps : SyncCall(op)) \/ TaskDone

\* the branches in which a call returns before media_art_set or
\* get_heuristic is called
BeforeReconciliation ==
    { "precondition", "not-found", "cancelled", "skip:current", "skip:memo" }

\* C18: a processing call that gets as far as media_art_set or get_heuristic
\* with a title that is NULL or the empty string returns failure with the
\* no-title error and leaves every cache file as it was.
C18_NoTitle ==
    [][ ( /\ ProcessingReturn
          /\ last'.branch \notin BeforeReconciliation
          /\ (last'.req.title = NULL \/ last'.req.title = << >>) )
        => /\ ~last'.ok
           /\ last'.err = "no-title"
           /\ fs' = fs
      ]_vars

\* C19: media_art_process_buffer and media_art_process_file called by the
\* caller, and media_art_process_file and media_art_process_uri called by
\* process_thread, with an artist or a title and a related file that does not
\* exist return failure with the not-found error of the query of the file,
\* and the cache files, their mtimes and the memo table stay as they were.
C19_NotFound ==
    [][ ( /\ \/ SyncCall("process_buffer")
             \/ SyncCall("process_file")
             \/ TaskDone /\ ~Cancelled(task.req, 1)
          /\ last'.req.mtime = NoFile
          /\ ~(last'.req.artist = NULL /\ last'.req.title = NULL) )
        => /\ ~last'.ok
           /\ last'.err = "not-found"
           /\ fs' = fs
           /\ memo' = memo
      ]_vars

\* media_art_process_file has failed on a missing media file in a process
\* that has cache files and a memo entry to lose
C19_Witness ==
    /\ last.op = "process_file"
    /\ last.req.mtime = NoFile
    /\ last.err = "not-found"
    /\ ~last.ok
    /\ fs # EmptyFs
    /\ memo # {}

\* the files of the cache that are media art of an entity or of an album,
\* and not the temporary file of a conversion
ArtifactPaths(f) == { p \in DOMAIN f : ~p.tmp }

\* C20: a step that takes an artifact path out of the cache directory, or
\* leaves one that resolved to a file resolving to none, is a step of
\* media_art_remove: the processing operations, called directly or run by
\* the worker, keep every artifact path that was there.
C20_OnlyRemoveDeletes ==
    [][ (\E p \in ArtifactPaths(fs) :
            \/ p \notin DOMAIN fs'
            \/ g_file_test_exists(fs, p) /\ ~g_file_test_exists(fs', p))
        => last'.op = "remove" /\ ~ProcessingReturn
      ]_vars

\* media_art_process_buffer has converted a buffer, found the album file it
\* made equal to the one in the cache and unlinked its temporary file, and
\* the album file of before is still there
C20_Witness ==
    /\ last.op = "process_buffer"
    /\ last.ok
    /\ \E i \in 1..Len(last.log) : last.log[i].call = "unlink" /\ last.log[i].path.tmp
    /\ AlbumOf(last.req) \in ArtifactPaths(fs)
    /\ TargetOf(last.req) \in ArtifactPaths(fs)
    /\ Cardinality(ArtifactPaths(fs)) >= 3

(***************************************************************************)
(* Properties of media_art_remove.                                         *)
(***************************************************************************)
\* C21: media_art_remove called with no artist and no album on a cache that
\* has files deletes every file of the cache directory and returns success.
C21_RemoveAll ==
    [][ ( /\ SyncCall("remove")
          /\ last'.req.artist = NULL
          /\ last'.req.title = NULL
          /\ fs # EmptyFs )
        => /\ fs' = EmptyFs
           /\ last'.ok
      ]_vars

\* this step is media_art_remove called for the artist and the title of the
\* album entry the last call, a processing operation, succeeded for
RemoveAfterSuccess ==
    /\ SyncCall("remove")
    /\ last.op \in ProcessingOps
    /\ last.ok
    /\ last.req.type = MEDIA_ART_ALBUM
    /\ last.req.artist # NULL /\ last.req.artist # << >>
    /\ last.req.title # NULL
    /\ last'.req.artist = last.req.artist
    /\ last'.req.title = last.req.title

\* C22: media_art_remove called for the artist and title a processing
\* operation has just succeeded for returns success with no error, and
\* afterwards neither the path of the entry nor the album path of the title
\* is in the cache directory.
C22_ProcessThenRemove ==
    [][ RemoveAfterSuccess
        => /\ last'.ok
           /\ last'.err = "none"
           /\ TargetOf(last.req) \notin DOMAIN fs'
           /\ AlbumOf(last.req) \notin DOMAIN fs'
      ]_vars

(***************************************************************************)
(* Properties of the search for media art in a directory.                  *)
(***************************************************************************)
\* w occurs in f as a run of consecutive characters; the empty string occurs
\* in every string
Contains(f, w) ==
    \E i \in 1..(Len(f) + 1), j \in 0..Len(f) : SubSeq(f, i, j) = w

\* the string in its normal form and lower case; NULL for no string
LowerNorm(x) ==
    IF x = NULL THEN NULL ELSE g_utf8_strdown(media_art_strip_invalid_entities(x))

\* the file name has the artist or the title in it; with nonempty, an
\* artist or title whose normal form is empty is in no file name
NamesEntity(f, artist, title, nonempty) ==
    \E w \in { LowerNorm(artist), LowerNorm(title) } :
        /\ w # NULL
        /\ nonempty => w # << >>
        /\ Contains(f, w)

\* the rules in their order, the first that applies giving the class
RuleClass(type, f, artist, title, nonempty) ==
    CASE NamesEntity(f, artist, title, nonempty) -> IMAGE_MATCH_EXACT
      [] type = MEDIA_ART_ALBUM /\ \E w \in { s_cover, s_front, s_folder } : Contains(f, w)
            -> IMAGE_MATCH_EXACT
      [] type = MEDIA_ART_ALBUM /\ Contains(f, s_albumart) /\ Contains(f, s_large)
            -> IMAGE_MATCH_EXACT
      [] type = MEDIA_ART_ALBUM /\ Contains(f, s_albumart) /\ Contains(f, s_small)
            -> IMAGE_MATCH_EXACT_SMALL
      [] type = MEDIA_ART_VIDEO /\ \E w \in { s_folder, s_poster } : Contains(f, w)
            -> IMAGE_MATCH_EXACT
      [] OTHER -> IMAGE_MATCH_SAME_DIRECTORY

\* C23 as stated: the class classify_image_file gives a lower-cased file
\* name is the class of the first rule that applies, rule (1) being that the
\* name contains the normalised lower-cased artist or title.
C23_RuleList ==
    scan.pc = "classified"
    => scan.priority = RuleClass(scan.type, scan.name, scan.artist, scan.title, FALSE)

\* C23 amended: the same, rule (1) applying only to an artist or a title
\* whose normal form is not empty.
C23_RuleListNonEmpty ==
    scan.pc = "classified"
    => scan.priority = RuleClass(scan.type, scan.name, scan.artist, scan.title, TRUE)

\* a name classified for a blank artist: no rule applies to it
C23_Witness ==
    /\ scan.pc = "classified"
    /\ scan.artist # NULL
    /\ LowerNorm(scan.artist) = << >>
    /\ scan.priority = IMAGE_MATCH_SAME_DIRECTORY
    /\ scan.type = MEDIA_ART_ALBUM

\* the entries of the directory read that pass the filter on the name and
\* that classify_image_file puts in the class
ScanClass(priority) ==
    { e \in { scan.entries[i] : i \in 1..Len(scan.entries) } :
        /\ IsImageName(g_utf8_strdown(e.name))
        /\ classify_image_file(media_art_search_new(scan.type, scan.artist, scan.title),
                               g_utf8_strdown(e.name)) = priority }

\* C24: of a directory read, an Exact entry is picked if there is one;
\* otherwise an ExactSmall one if there is one; otherwise, for a video and
\* when there is exactly one SameDirectory entry, that one; otherwise none.
C24_SelectionPolicy ==
    scan.pc = "found"
    => IF ScanClass(IMAGE_MATCH_EXACT) # {}
       THEN scan.found \in ScanClass(IMAGE_MATCH_EXACT)
       ELSE IF ScanClass(IMAGE_MATCH_EXACT_SMALL) # {}
       THEN scan.found \in ScanClass(IMAGE_MATCH_EXACT_SMALL)
       ELSE IF /\ scan.type = MEDIA_ART_VIDEO
               /\ Cardinality(ScanClass(IMAGE_MATCH_SAME_DIRECTORY)) = 1
       THEN scan.found \in ScanClass(IMAGE_MATCH_SAME_DIRECTORY)
       ELSE scan.found = NoEntry

\* an album search over a directory whose only picture is unrelated has
\* picked nothing
C24_Witness ==
    /\ scan.pc = "found"
    /\ scan.type = MEDIA_ART_ALBUM
    /\ ScanClass(IMAGE_MATCH_EXACT) = {}
    /\ ScanClass(IMAGE_MATCH_EXACT_SMALL) = {}
    /\ Cardinality(ScanClass(IMAGE_MATCH_SAME_DIRECTORY)) = 1
    /\ scan.found = NoEntry

\* the entry media_art_find_by_artist_and_title picks for a returned call
\* that got as far as get_heuristic with a title
PickedEntry(call) ==
    IF \/ call.op \notin { "process_file", "process_file_async", "process_uri_async",
                           "process_buffer_async" }
       \/ call.branch \in BeforeReconciliation
       \/ call.req.title = NULL
       \/ call.req.title = << >>
    THEN NoEntry
    ELSE media_art_find_by_artist_and_title(call.req.entries, call.req.type,
                                            call.req.artist, call.req.title)

\* C25: the entry picked from the directory has a name that ends in .jpeg,
\* .jpg or .png in some letter case, and get_heuristic reconciles it in its
\* JPEG branch or its PNG branch.
C25_FilterAndReconcile ==
    PickedEntry(last) # NoEntry
    => /\ \E suffix \in { s_jpeg, s_jpg, s_png } :
             g_str_has_suffix(g_utf8_strdown(PickedEntry(last).name), <<".">> \o suffix)
       /\ last.branch \in HeuristicBranches

(***************************************************************************)
(* Properties of the album file shared by the entries of one title.        *)
(***************************************************************************)
\* the branches taken when the digest of the new art is not the digest of
\* the album file that exists
DiffersBranches ==
    { "set:jpeg-differs", "set:converted-differs", "heur:jpeg-differs", "conv:differs" }

\* C26: when a processing call finds the digest of its art (a JPEG buffer, a
\* JPEG file of the directory, or the temporary file of a conversion)
\* different from the digest of the album file, the album file keeps its
\* content and the path of the entry becomes a file with the new art.
C26_DivergentKeepsAlbum ==
    [][ ( /\ ProcessingReturn
          /\ last'.branch \in DiffersBranches
          /\ last'.err = "none" )
        => /\ ReadData(fs', AlbumOf(last'.req)) = ReadData(fs, AlbumOf(last'.req))
           /\ TargetOf(last'.req) \in DOMAIN fs'
           /\ fs'[TargetOf(last'.req)].kind = "reg"
           /\ ReadData(fs', TargetOf(last'.req)).pic = SourceArt(last').pic
      ]_vars

\* the artist is absent, empty or white space only
BlankArtist(artist) ==
    artist = NULL \/ \A i \in 1..Len(artist) : IsAsciiSpace(artist[i])

\* the request takes no part in the sharing of album files
NonSharable(req) == req.type # MEDIA_ART_ALBUM \/ BlankArtist(req.artist)

\* this step is a processing call that got as far as media_art_set or the
\* candidate of get_heuristic
Reconciles ==
    /\ ProcessingReturn
    /\ last'.branch \in SetBranches \cup HeuristicBranches

\* C27: a processing call for a type that is not album, or for an absent or
\* blank artist, makes no symbolic link, leaves an album path other than the
\* path of the entry as it was and, when it succeeds, leaves the art in a
\* file at the path of the entry.
C27_NonSharableDirect ==
    [][ (Reconciles /\ NonSharable(last'.req))
        => /\ \A p \in DOMAIN fs' :
                 fs'[p].kind = "link" => (p \in DOMAIN fs /\ fs[p] = fs'[p])
           /\ AlbumOf(last'.req) # TargetOf(last'.req)
                 => /\ AlbumOf(last'.req) \in DOMAIN fs' <=> AlbumOf(last'.req) \in DOMAIN fs
                    /\ AlbumOf(last'.req) \in DOMAIN fs
                          => fs'[AlbumOf(last'.req)] = fs[AlbumOf(last'.req)]
           /\ last'.ok
                 => /\ TargetOf(last'.req) \in DOMAIN fs'
                    /\ fs'[TargetOf(last'.req)].kind = "reg"
      ]_vars

\* C28: a processing call for an album entry with an artist that is not
\* blank, made when the album file of the title does not exist and with art
\* the codec accepts, succeeds, and afterwards the album file holds the new
\* art and the path of the entry is a symbolic link to it, whatever was at
\* the path of the entry before.  The cancellable is not cancelled.
C28_FirstArt ==
    [][ ( /\ Reconciles
          /\ ~NonSharable(last'.req)
          /\ AlbumOf(last'.req) \notin DOMAIN fs
          /\ Decodable(SourceArt(last'))
          /\ last'.req.cancel = 0 )
        => /\ last'.ok
           /\ AlbumOf(last'.req) \in DOMAIN fs'
           /\ fs'[AlbumOf(last'.req)].kind = "reg"
           /\ fs'[AlbumOf(last'.req)].data.pic = SourceArt(last').pic
           /\ TargetOf(last'.req) \in DOMAIN fs'
           /\ fs'[TargetOf(last'.req)] = LinkFile(AlbumOf(last'.req))
      ]_vars

(***************************************************************************)
(* Frame of a processing call: the entries of other artists.               *)
(***************************************************************************)
\* the entries with an artist, other than the artist of the request, at a
\* path other than the path of the request, that resolve to art in the
\* directory
OtherResolved(f, req) ==
    { e \in Entities : /\ ~BlankArtist(e.artist)
                       /\ e.artist # req.artist
                       /\ TargetOf(e) # TargetOf(req)
                       /\ g_file_test_exists(f, TargetOf(e)) }

\* C29: a processing call for one artist changes neither the content read
\* through the path of an entry of another artist that resolved to art
\* before the call, nor the modification time seen through that path.
C29_OtherEntityUntouched ==
    [][ ProcessingReturn
        => \A e \in OtherResolved(fs, last'.req) :
              /\ ReadData(fs', TargetOf(e)) = ReadData(fs, TargetOf(e))
              /\ get_mtime(fs', TargetOf(e)) = get_mtime(fs, TargetOf(e))
      ]_vars


(***************************************************************************)
(* What a successful media_art_process_file call says about the cache.     *)
(***************************************************************************)
\* C30: after any sequence of media_art_process_file, media_art_process_buffer
\* and media_art_remove calls on one process object, with the media file
\* modified between the calls, a media_art_process_file call that returned
\* TRUE leaves the cache path of its entry resolving to a file whose
\* modification time is not before the time of the media file.
C30_SuccessMeansCurrent ==
    (last.op = "process_file" /\ last.ok)
        => /\ g_file_test_exists(fs, TargetOf(last.req))
           /\ get_mtime(fs, TargetOf(last.req)) >= last.req.mtime

(***************************************************************************)
(* The links of the cache directory.                                       *)
(***************************************************************************)
\* C31: after any sequence of processing and remove calls every symbolic
\* link of the cache directory points at a file that exists, so every path
\* of an entry that exists resolves to art.
C31_NoDanglingLinks ==
    \A p \in DOMAIN fs :
        fs[p].kind = "link" => (fs[p].to \in DOMAIN fs /\ fs[fs[p].to].kind = "reg")

(***************************************************************************)
(* What media_art_process_file reports for a candidate it stored.          *)
(***************************************************************************)
\* the key of the request in the table media_art_cache
HKeyOf(req) == get_heuristic_for_parent_path(parent_path, req.type, req.artist, req.title)

\* the file system calls by which get_heuristic puts a candidate in the cache
StoringCalls == { "copy", "rename-to", "symlink" }

\* this step is a media_art_process_file call, not cancelled, in which
\* get_heuristic put its candidate in the cache and no step set an error
StoredCandidate ==
    /\ ProcessingReturn
    /\ last'.branch \in HeuristicBranches
    /\ last'.err = "none"
    /\ last'.req.cancel = 0
    /\ \E i \in 1..Len(last'.log) : last'.log[i].call \in StoringCalls

\* C32: a media_art_process_file call whose candidate was copied, converted
\* or linked into the cache without an error, in any branch of get_heuristic,
\* returns TRUE, records its key in the table, and leaves the cache path of
\* the entry, when it exists, with the time of the media file.
C32_StoredIsSuccess ==
    [][ StoredCandidate
        => /\ last'.ok
           /\ HKeyOf(last'.req) \in memo'
           /\ g_file_test_exists(fs', TargetOf(last'.req))
                 => get_mtime(fs', TargetOf(last'.req)) = last'.req.mtime
      ]_vars

(***************************************************************************)
(* The time of the cache file after a reconciliation.                      *)
(***************************************************************************)
\* this step is a processing call that called media_art_set or get_heuristic
\* and either returned TRUE or found no candidate in the directory
Attempts ==
    /\ ProcessingReturn
    /\ last'.branch \notin BeforeReconciliation
    /\ last'.ok \/ last'.branch = "heur:no-candidate"

\* C33: after a processing call that called media_art_set or get_heuristic,
\* whether it succeeded or found no candidate, the cache path of the entry,
\* if it exists, has the modification time of the media file.
C33_MtimeStamped ==
    [][ (Attempts /\ g_file_test_exists(fs', TargetOf(last'.req)))
        => get_mtime(fs', TargetOf(last'.req)) = last'.req.mtime
      ]_vars

(***************************************************************************)
(* The table media_art_cache of the process object.                        *)
(***************************************************************************)
\* the calls that end in media_art_process_file
FileOps == { "process_file", "process_file_async", "process_uri_async" }

\* this step is a media_art_process_file call returning to its caller
FileReturn == ProcessingReturn /\ last'.op \in FileOps

\* C34: a media_art_process_file call that ran get_heuristic, and either
\* stored a candidate or found none, leaves its key in the table; a call
\* made with its key in the table does not run get_heuristic; and no step
\* but the end of the process object takes a key out of the table.
C34_AttemptsMemoised ==
    [][ /\ (FileReturn /\ Attempts) => HKeyOf(last'.req) \in memo'
        /\ (FileReturn /\ HKeyOf(last'.req) \in memo)
              => last'.branch \in BeforeReconciliation
        /\ NewProcess \/ memo \subseteq memo'
      ]_vars

(***************************************************************************)
(* A symbolic link that cannot be made.                                    *)
(***************************************************************************)
\* the branches that end in symlink (album path, path of the entry)
SymlinkBranches ==
    { "set:album-missing", "set:jpeg-same", "set:converted-same",
      "heur:jpeg-same", "heur:album-missing", "conv:same", "conv:album-missing" }

\* this step is a processing call, not cancelled, that came to the symlink
\* of such a branch with the path of the entry already in the directory
SymlinkRefused ==
    /\ ProcessingReturn
    /\ last'.branch \in SymlinkBranches
    /\ last'.err # "codec"
    /\ last'.req.cancel = 0
    /\ TargetOf(last'.req) \in DOMAIN fs

\* C35: a processing call whose symbolic link cannot be made because the
\* path of the entry exists writes the art to a file at the path of the
\* entry and returns TRUE.
C35_SharingDegrades ==
    [][ SymlinkRefused
        => /\ last'.ok
           /\ TargetOf(last'.req) \in DOMAIN fs'
           /\ fs'[TargetOf(last'.req)].kind = "reg"
           /\ fs'[TargetOf(last'.req)].data.pic = SourceArt(last').pic
      ]_vars

(***************************************************************************)
(* Temporary files.                                                        *)
(***************************************************************************)
\* C36: when a processing call has returned, whichever way its conversion
\* went (the codec failed, a digest could not be read, the digests matched,
\* g_rename succeeded or failed, symlink failed), no file with a "-tmp" name
\* is left in the cache directory.
C36_NoTempLeft == \A p \in DOMAIN fs : ~p.tmp

(***************************************************************************)
(* A codec that fails.                                                     *)
(***************************************************************************)
\* the branches in which the codec was given the art of the request
CodecBranches ==
    { "set:direct", "set:album-missing", "set:jpeg-differs", "set:convert-failed",
      "set:temp-unreadable", "conv:codec-failed" }

\* this step is a processing call in which the codec was given bytes it
\* makes no picture of
CodecFailed ==
    /\ Reconciles
    /\ last'.branch \in CodecBranches
    /\ ~Decodable(SourceArt(last'))

\* C37: a processing call whose codec fails returns FALSE, and afterwards
\* the path of the entry and the album path hold nothing they did not hold
\* before the call.
C37_NoHalfWritten ==
    [][ CodecFailed
        => /\ ~last'.ok
           /\ \A p \in { TargetOf(last'.req), AlbumOf(last'.req) } :
                 p \in DOMAIN fs'
                    => /\ p \in DOMAIN fs
                       /\ fs'[p].kind = fs[p].kind
                       /\ fs'[p].data = fs[p].data
      ]_vars

(***************************************************************************)
(* A cancellable cancelled while the reconciliation runs.                  *)
(***************************************************************************)
\* what the call of this step leaves and logs when its cancellable is never
\* cancelled
Uncancelled ==
    IF last'.op = "process_buffer"
    THEN media_art_process_buffer(fs, memo, [last'.req EXCEPT !.cancel = 0])
    ELSE media_art_process_file(fs, memo, [last'.req EXCEPT !.cancel = 0])

\* this step is a synchronous processing call that called media_art_set or
\* get_heuristic and whose cancellable is cancelled
CancelledAfterWork ==
    /\ SyncCall("process_buffer") \/ SyncCall("process_file")
    /\ last'.req.cancel # 0
    /\ last'.branch \notin BeforeReconciliation

\* C38: a processing call whose cancellable is cancelled after media_art_set
\* or get_heuristic was called makes every file system call, in the same
\* order, and leaves the same cache directory and the same table as the call
\* does without the cancellation; it only returns FALSE.
C38_CancelAfterWork ==
    [][ CancelledAfterWork
        => /\ ~last'.ok
           /\ fs' = Uncancelled.fs
           /\ memo' = Uncancelled.memo
           /\ last'.log = Uncancelled.log
           /\ last'.branch = Uncancelled.branch
      ]_vars

\* a cancelled call has written the album file, linked the path of the entry
\* to it and set its time
C38_Witness ==
    /\ last.op \in { "process_buffer", "process_file" }
    /\ last.req.cancel # 0
    /\ last.branch \in { "set:album-missing", "heur:album-missing" }
    /\ ~last.ok
    /\ Len(last.log) = 3
    /\ g_file_test_exists(fs, TargetOf(last.req))
    /\ get_mtime(fs, TargetOf(last.req)) = last.req.mtime

(***************************************************************************)
(* What is taken for JPEG data.                                            *)
(***************************************************************************)
StartsWithJpegMagic(data) == AtLeast3Bytes(data) /\ HasJpegMagic(data)

\* the branches of media_art_set for a buffer taken as JPEG, and as other
SetAsJpeg == { "set:jpeg-same", "set:jpeg-differs" }

SetAsOther ==
    { "set:convert-failed", "set:temp-unreadable", "set:converted-same",
      "set:converted-differs" }

\* the branches of get_heuristic for a .jpg or .jpeg file taken as JPEG, and
\* the branches of convert_from_other_format
FileAsJpeg == { "heur:jpeg-same", "heur:jpeg-differs", "heur:album-missing" }

ConvertBranches ==
    { "conv:codec-failed", "conv:no-artist", "conv:temp-unreadable", "conv:same",
      "conv:differs", "conv:album-missing" }

HasJpegSuffix(name) == g_str_has_suffix(name, s_jpeg) \/ g_str_has_suffix(name, s_jpg)

\* a buffer of three bytes or more declared as JPEG or starting with FF D8 FF
DeclaredOrMagic(req) ==
    AtLeast3Bytes(req.buffer) /\ (IsJpegMime(req.mime) \/ HasJpegMagic(req.buffer))

C40_KeysCoincide ==
    key.pc = "resolved" =>
        /\ key.title = NULL
              => key.path = media_art_get_path(NULL, key.artist, key.prefix)
        /\ key.artist = NULL
              => key.path = media_art_get_path(key.title, NULL, key.prefix)

\* the path of the artist "T" with no title: the digest of "t", then the
\* digest of " "
C40_Witness ==
    /\ key.pc = "resolved"
    /\ key.artist = <<"T">>
    /\ key.title = NULL
    /\ key.prefix = "video"
    /\ key.path = [prefix |-> "video", a |-> <<"md5", "t">>, b |-> space_checksum,
                   tmp |-> FALSE]
    /\ key.path = media_art_get_path(NULL, <<"T">>, "video")

====
